---- MODULE Spec2Model ----
(***************************************************************************)
(* Model of the VM orchestrator of vmm/src/vm.rs (x86_64, pci_support):    *)
(* the lifecycle state machine, the hot-plug coordinator and the resize    *)
(* coordinator.  Every public method of Vm is one action: the method takes *)
(* &mut self, so calls are serialized and a call runs to its return.  The  *)
(* CPU, Memory and Device Managers and the hypervisor are collaborators    *)
(* outside vm.rs; each call to one of them may fail, and the action's      *)
(* `fail` parameter names the call that fails ("none" for a clean run).    *)
(***************************************************************************)
EXTENDS Integers, Sequences, FiniteSets, TLC

VARIABLES
    state,           \* Vm.state: RwLock<VmState>
    cpu_manager,     \* what the CPU Manager has been asked to do
    device_manager,  \* what the Device Manager has been asked to do (lifecycle part)
    memory_manager,  \* what the Memory Manager has been asked to do (lifecycle part)
    saved_clock,     \* Vm.saved_clock: Option<ClockData>
    vm_clock,        \* the clock last installed in the hypervisor by set_clock
    term,            \* mode of the controlling terminal: "canon" or "raw"
    on_tty,          \* Vm.on_tty
    console_input,   \* device_manager.console().input_enabled()
    signals,         \* Vm.signals: Option<Signals>, the Signals named by the place in
                     \* Vm.threads of the thread that iterates it (0: it has no thread)
    threads,         \* Vm.threads: Vec<JoinHandle>, each thread by the condition of the
                     \* Signals it iterates: "open" or "closed"
    pc,              \* "idle", or "joining" while shutdown waits in thread.join()
    config,          \* Vm.config: the VmConfig mirror
    dm_devices,      \* the device ids the Device Manager holds
    cpu_vcpus,       \* the vCPU count last applied by the CPU Manager
    mm_size,         \* the memory size last applied by the Memory Manager
    mm_balloon,      \* the balloon size last applied by the Memory Manager
    calls,           \* the collaborator calls made by the last method call, in order
    ret,             \* the last method call: its name, its argument and what it returned
    held,            \* the locks the calling thread holds, in the order it took them
    running,         \* the method followed lock by lock, and the place reached in it
    files,           \* the destination directories of send: what each one contains
    process          \* the VMM process as the signal handler thread leaves it: its exit
                     \* code once it has exited, and the size last given to the console

lifecycle_vars == <<state, cpu_manager, device_manager, memory_manager, saved_clock,
                    vm_clock, term, on_tty, console_input, signals, threads, pc>>
reconfig_vars == <<config, dm_devices, cpu_vcpus, mm_size, mm_balloon>>
lock_vars == <<held, running>>
host_vars == <<files, process>>
vars == <<lifecycle_vars, reconfig_vars, calls, ret, lock_vars, host_vars>>

----------------------------------------------------------------------------
(* Bounds of the model.                                                    *)

\* largest value the hypervisor clock is drawn from
MaxClock == 0
\* largest number of signal handler threads kept in Vm.threads
MaxThreads == 2
\* largest number of devices the Device Manager holds by id
MaxDevices == 1
\* largest number of entries of a VmConfig device sequence
MaxEntries == 2
\* vCPU counts and memory sizes are drawn from 1..MaxResize
MaxResize == 2
\* longest configured command line and most device-contributed entries
MaxArgs == 2
MaxAdditions == 2
\* arch::CMDLINE_MAX_SIZE, scaled down to the strings of the model
CmdlineMaxSize == 6
\* width of a guest address: the u64 of the code scaled down
AddressBits == 12
\* NUMA node ids are drawn from 0..MaxNode
MaxNode == 1
\* terminal columns and rows are drawn from 1..MaxWin
MaxWin == 2

----------------------------------------------------------------------------
(* Values.                                                                 *)

None == [some |-> FALSE]
Some(v) == [some |-> TRUE, v |-> v]

VmState == {"Created", "Running", "Shutdown", "Paused"}

Ok == [kind |-> "Ok"]
Err(kind) == [kind |-> kind]
Wrap(kind, cause) == [kind |-> kind, cause |-> cause]
InvalidStateTransition(from, to) ==
    [kind |-> "InvalidStateTransition", from |-> from, to |-> to]

\* VmState::valid_transition with Shutdown -> Paused accepted
valid_transition_mut(self, new_state) ==
    IF self = "Shutdown" /\ new_state = "Paused" THEN Ok
    ELSE CASE self = "Created" ->
                 IF new_state \in {"Created", "Shutdown"}
                 THEN InvalidStateTransition(self, new_state) ELSE Ok
           [] self = "Running" ->
                 IF new_state \in {"Created", "Running"}
                 THEN InvalidStateTransition(self, new_state) ELSE Ok
           [] self = "Shutdown" ->
                 IF new_state \in {"Created", "Shutdown"}
                 THEN InvalidStateTransition(self, new_state) ELSE Ok
           [] self = "Paused" ->
                 IF new_state \in {"Created", "Paused"}
                 THEN InvalidStateTransition(self, new_state) ELSE Ok

valid_transition(self, new_state) ==
    CASE self = "Created" ->
            (CASE new_state \in {"Created", "Shutdown"} ->
                     InvalidStateTransition(self, new_state)
               [] new_state \in {"Running", "Paused"} -> Ok)
      [] self = "Running" ->
            (CASE new_state \in {"Created", "Running"} ->
                     InvalidStateTransition(self, new_state)
               [] new_state \in {"Paused", "Shutdown"} -> Ok)
      [] self = "Shutdown" ->
            (CASE new_state \in {"Paused", "Created", "Shutdown"} ->
                     InvalidStateTransition(self, new_state)
               [] new_state = "Running" -> Ok)
      [] self = "Paused" ->
            (CASE new_state \in {"Created", "Paused"} ->
                     InvalidStateTransition(self, new_state)
               [] new_state \in {"Running", "Shutdown"} -> Ok)

\* what hypervisor::Vm::get_clock may return
ClockData == [value : 0..MaxClock, flags : {0, 1}]


----------------------------------------------------------------------------
(* The lifecycle methods.  Each *_outcome operator runs one method of Vm   *)
(* on the current state and returns the values its fields and its          *)
(* collaborators have when the method returns, with the collaborator calls *)
(* it made (calls) and its return value (res).                             *)

Cur ==
    [state |-> state, cpu |-> cpu_manager, dev |-> device_manager,
     mem |-> memory_manager, saved_clock |-> saved_clock, vm_clock |-> vm_clock,
     term |-> term, signals |-> signals, threads |-> threads,
     pc |-> "idle", calls |-> <<>>, res |-> Ok]

\* a collaborator call is logged with how it ended: "ok", "err", or "pending"
\* for a call that has not returned
Call(s, name) == [s EXCEPT !.calls = Append(@, [call |-> name, r |-> "ok"])]
\* the method returns r without a failed call
Return(s, r) == [s EXCEPT !.res = r]
\* the call logged last failed and the method returns r
Failed(s, r) == [s EXCEPT !.res = r, !.calls[Len(s.calls)].r = "err"]
\* the call logged last returned the value r
Reported(s, r) == [s EXCEPT !.calls[Len(s.calls)].r = r]

\* Vm::snapshot's gate, with Running let through as well
snapshot_allowed_mut(current_state) == current_state \in {"Paused", "Running"}

\* the state check of Vm::snapshot
snapshot_allowed(current_state) == current_state = "Paused"

\* Pausable::pause undoing what it did when a later step fails
pause_steps_rollback(fail, clock) ==
    LET s1 == Call(Cur, "vm.get_clock") IN
    IF fail = "vm.get_clock" THEN Failed(s1, Wrap("Pause", Err("GetClock")))
    ELSE LET s2 == Call(s1, "cpu_manager.pause") IN
    IF fail = "cpu_manager.pause" THEN Failed(s2, Err("CpuManagerPause"))
    ELSE LET s3 == Call(s2, "device_manager.pause") IN
    IF fail = "device_manager.pause" THEN Failed(s3, Err("DeviceManagerPause"))
    ELSE [s3 EXCEPT !.saved_clock = Some([clock EXCEPT !.flags = 0]),
                    !.cpu.paused = TRUE, !.dev.paused = TRUE, !.state = "Paused"]

\* Pausable::pause with the Device Manager paused before the CPU Manager
pause_steps_devices_first(fail, clock) ==
    LET s1 == Call(Cur, "vm.get_clock") IN
    IF fail = "vm.get_clock" THEN Failed(s1, Wrap("Pause", Err("GetClock")))
    ELSE LET s2 == Call([s1 EXCEPT !.saved_clock = Some([clock EXCEPT !.flags = 0])],
                        "device_manager.pause") IN
    IF fail = "device_manager.pause" THEN Failed(s2, Err("DeviceManagerPause"))
    ELSE LET s3 == Call([s2 EXCEPT !.dev.paused = TRUE], "cpu_manager.pause") IN
    IF fail = "cpu_manager.pause" THEN Failed(s3, Err("CpuManagerPause"))
    ELSE [s3 EXCEPT !.cpu.paused = TRUE, !.state = "Paused"]

\* Pausable::pause after its transition check, x86_64; clock is what get_clock
\* returns
pause_steps(fail, clock) ==
    LET s1 == Call(Cur, "vm.get_clock") IN
    IF fail = "vm.get_clock" THEN Failed(s1, Wrap("Pause", Err("GetClock")))
    ELSE LET s2 == Call([s1 EXCEPT !.saved_clock = Some([clock EXCEPT !.flags = 0])],
                        "cpu_manager.pause") IN
    IF fail = "cpu_manager.pause" THEN Failed(s2, Err("CpuManagerPause"))
    ELSE LET s3 == Call([s2 EXCEPT !.cpu.paused = TRUE], "device_manager.pause") IN
    IF fail = "device_manager.pause" THEN Failed(s3, Err("DeviceManagerPause"))
    ELSE [s3 EXCEPT !.dev.paused = TRUE, !.state = "Paused"]

\* Pausable::pause without its transition check
pause_outcome_mut(fail, clock) == pause_steps(fail, clock)

\* Pausable::pause
pause_outcome(fail, clock) ==
    LET chk == valid_transition(state, "Paused") IN
    IF chk.kind # "Ok" THEN Return(Cur, Wrap("Pause", chk))
    ELSE pause_steps(fail, clock)

\* Pausable::resume setting the clock after the devices are resumed
resume_outcome_clock_last(fail) ==
    LET chk == valid_transition(state, "Running") IN
    IF chk.kind # "Ok" THEN Return(Cur, Wrap("Resume", chk))
    ELSE LET s1 == Call(Cur, "cpu_manager.resume") IN
    IF fail = "cpu_manager.resume" THEN Failed(s1, Err("CpuManagerResume"))
    ELSE LET s2 == Call([s1 EXCEPT !.cpu.paused = FALSE], "device_manager.resume") IN
    IF fail = "device_manager.resume" THEN Failed(s2, Err("DeviceManagerResume"))
    ELSE LET s3 == [s2 EXCEPT !.dev.paused = FALSE]
             s4 == IF saved_clock.some THEN Call(s3, "vm.set_clock") ELSE s3 IN
    IF saved_clock.some /\ fail = "vm.set_clock"
    THEN Failed(s4, Wrap("Resume", Err("SetClock")))
    ELSE [s4 EXCEPT !.vm_clock = IF saved_clock.some THEN saved_clock ELSE @,
                    !.state = "Running"]

\* Pausable::resume, x86_64
resume_outcome(fail) ==
    LET chk == valid_transition(state, "Running") IN
    IF chk.kind # "Ok" THEN Return(Cur, Wrap("Resume", chk))
    ELSE LET s1 == Call(Cur, "cpu_manager.resume") IN
    IF fail = "cpu_manager.resume" THEN Failed(s1, Err("CpuManagerResume"))
    ELSE LET s2 == [s1 EXCEPT !.cpu.paused = FALSE]
             s3 == IF saved_clock.some THEN Call(s2, "vm.set_clock") ELSE s2 IN
    IF saved_clock.some /\ fail = "vm.set_clock"
    THEN Failed(s3, Wrap("Resume", Err("SetClock")))
    ELSE LET s4 == Call(IF saved_clock.some
                        THEN [s3 EXCEPT !.vm_clock = saved_clock] ELSE s3,
                        "device_manager.resume") IN
    IF fail = "device_manager.resume" THEN Failed(s4, Err("DeviceManagerResume"))
    ELSE [s4 EXCEPT !.dev.paused = FALSE, !.state = "Running"]

\* the console block shared by Vm::boot and Vm::restore: register the signal
\* handler, spawn its thread, set the terminal raw.  At MaxThreads threads
\* Signals::new is taken to fail, which the code logs and survives.
console_outcome(s, fail, spawn_err, raw_err) ==
    IF ~console_input THEN s
    ELSE LET registered == fail # "Signals::new" /\ Len(s.threads) < MaxThreads
             s1 == IF registered THEN Call(s, "Signals::new")
                   ELSE [Call(s, "Signals::new") EXCEPT !.calls[Len(s.calls) + 1].r = "err"]
             s2 == IF registered
                   THEN Call([s1 EXCEPT !.signals = Some(0)], "thread.spawn")
                   ELSE s1 IN
         IF registered /\ fail = "thread.spawn" THEN Failed(s2, spawn_err)
         ELSE LET s3 == IF registered
                        THEN [s2 EXCEPT !.threads = Append(@, "open"),
                                        !.signals = Some(Len(s.threads) + 1)]
                        ELSE s2
                  s4 == IF on_tty THEN Call(s3, "set_raw_mode") ELSE s3 IN
         IF on_tty /\ fail = "set_raw_mode" THEN Failed(s4, raw_err)
         ELSE IF on_tty THEN [s4 EXCEPT !.term = "raw"] ELSE s4

\* Vm::boot starting the vCPUs before it configures the system
boot_outcome_start_first(fail) ==
    LET current_state == state IN
    IF current_state = "Paused"
    THEN LET r == resume_outcome(fail) IN
         IF r.res.kind = "Ok" THEN r ELSE Return(r, Wrap("Resume", r.res))
    ELSE LET chk == valid_transition(current_state, "Running") IN
    IF chk.kind # "Ok" THEN Return(Cur, chk)
    ELSE LET s1 == Call(Cur, "load_kernel") IN
    IF fail = "load_kernel" THEN Failed(s1, Err("KernelLoad"))
    ELSE LET s2 == Call(s1, "cpu_manager.create_boot_vcpus") IN
    IF fail = "cpu_manager.create_boot_vcpus"
    THEN Failed(s2, Wrap("CpuManager", Err("CreateBootVcpus")))
    ELSE LET s3 == Call([s2 EXCEPT !.cpu.vcpus = "created"],
                        "cpu_manager.start_boot_vcpus") IN
    IF fail = "cpu_manager.start_boot_vcpus"
    THEN Failed(s3, Wrap("CpuManager", Err("StartBootVcpus")))
    ELSE LET s4 == Call([s3 EXCEPT !.cpu.vcpus = "started"], "configure_system") IN
    IF fail = "configure_system" THEN Failed(s4, Err("ConfigureSystem"))
    ELSE LET s5 == console_outcome(s4, fail,
                                   Err("SignalHandlerSpawn"), Err("SetTerminalRaw")) IN
    IF s5.res.kind # "Ok" THEN s5
    ELSE [s5 EXCEPT !.state = "Running"]

\* Vm::boot without its Paused branch: a paused Vm is booted like a created one
boot_outcome_no_resume(fail) ==
    LET current_state == state
        chk == valid_transition(current_state, "Running") IN
    IF chk.kind # "Ok" THEN Return(Cur, chk)
    ELSE LET s1 == Call(Cur, "load_kernel") IN
    IF fail = "load_kernel" THEN Failed(s1, Err("KernelLoad"))
    ELSE LET s2 == Call(s1, "cpu_manager.create_boot_vcpus") IN
    IF fail = "cpu_manager.create_boot_vcpus"
    THEN Failed(s2, Wrap("CpuManager", Err("CreateBootVcpus")))
    ELSE LET s3 == Call([s2 EXCEPT !.cpu.vcpus = "created"], "configure_system") IN
    IF fail = "configure_system" THEN Failed(s3, Err("ConfigureSystem"))
    ELSE LET s4 == Call(s3, "cpu_manager.start_boot_vcpus") IN
    IF fail = "cpu_manager.start_boot_vcpus"
    THEN Failed(s4, Wrap("CpuManager", Err("StartBootVcpus")))
    ELSE LET s5 == console_outcome([s4 EXCEPT !.cpu.vcpus = "started"], fail,
                                   Err("SignalHandlerSpawn"), Err("SetTerminalRaw")) IN
    IF s5.res.kind # "Ok" THEN s5
    ELSE [s5 EXCEPT !.state = "Running"]

\* Vm::boot
boot_outcome(fail) ==
    LET current_state == state IN
    IF current_state = "Paused"
    THEN LET r == resume_outcome(fail) IN
         IF r.res.kind = "Ok" THEN r ELSE Return(r, Wrap("Resume", r.res))
    ELSE LET chk == valid_transition(current_state, "Running") IN
    IF chk.kind # "Ok" THEN Return(Cur, chk)
    ELSE LET s1 == Call(Cur, "load_kernel") IN
    IF fail = "load_kernel" THEN Failed(s1, Err("KernelLoad"))
    ELSE LET s2 == Call(s1, "cpu_manager.create_boot_vcpus") IN
    IF fail = "cpu_manager.create_boot_vcpus"
    THEN Failed(s2, Wrap("CpuManager", Err("CreateBootVcpus")))
    ELSE LET s3 == Call([s2 EXCEPT !.cpu.vcpus = "created"], "configure_system") IN
    IF fail = "configure_system" THEN Failed(s3, Err("ConfigureSystem"))
    ELSE LET s4 == Call(s3, "cpu_manager.start_boot_vcpus") IN
    IF fail = "cpu_manager.start_boot_vcpus"
    THEN Failed(s4, Wrap("CpuManager", Err("StartBootVcpus")))
    ELSE LET s5 == console_outcome([s4 EXCEPT !.cpu.vcpus = "started"], fail,
                                   Err("SignalHandlerSpawn"), Err("SetTerminalRaw")) IN
    IF s5.res.kind # "Ok" THEN s5
    ELSE [s5 EXCEPT !.state = "Running"]

\* the threads thread.join() returns for, in order, before one blocks
RECURSIVE Joined(_)
Joined(ts) ==
    IF ts = <<>> \/ Head(ts) # "closed" THEN <<>>
    ELSE <<Head(ts)>> \o Joined(Tail(ts))

\* Vm::shutdown shutting the CPU Manager down before it resumes the devices
shutdown_steps_cpus_first(fail) ==
    LET s1 == IF on_tty THEN Call(Cur, "set_canon_mode") ELSE Cur IN
    IF on_tty /\ fail = "set_canon_mode" THEN Failed(s1, Err("SetTerminalCanon"))
    ELSE LET s2 == IF on_tty THEN [s1 EXCEPT !.term = "canon"] ELSE s1
             s3 == IF signals.some
                   THEN Call([s2 EXCEPT !.signals = None,
                                 !.threads = [i \in 1..Len(threads) |->
                                     IF i = signals.v THEN "closed" ELSE threads[i]]],
                             "signals.close")
                   ELSE s2
             s4 == Call(s3, "cpu_manager.shutdown") IN
    IF fail = "cpu_manager.shutdown"
    THEN Failed(s4, Wrap("CpuManager", Err("Shutdown")))
    ELSE LET s5 == Call([s4 EXCEPT !.cpu.vcpus = "stopped"], "device_manager.resume") IN
    IF fail = "device_manager.resume"
    THEN Failed(s5, Wrap("Resume", Err("DeviceManagerResume")))
    ELSE LET s6 == [s5 EXCEPT !.dev.paused = FALSE]
             done == Joined(s6.threads)
             left == SubSeq(s6.threads, Len(done) + 1, Len(s6.threads))
             s7 == [s6 EXCEPT !.calls = @ \o [i \in 1..Len(done) |->
                                                 [call |-> "thread.join", r |-> "ok"]]] IN
    IF s6.threads # <<>> /\ fail = "thread.join"
    \* a handler thread that panicked: join returns Err, the Drain drops the rest
    THEN Failed([Call(s6, "thread.join") EXCEPT !.threads = <<>>],
                Err("ThreadCleanup"))
    ELSE IF left # <<>>
    \* join of a thread whose Signals was never closed does not return
    THEN [Call(s7, "thread.join") EXCEPT !.threads = left, !.pc = "joining",
                                         !.calls[Len(s7.calls) + 1].r = "pending",
                                         !.res = Err("Pending")]
    ELSE [s7 EXCEPT !.threads = <<>>, !.state = "Shutdown"]

\* Vm::shutdown after its transition check
shutdown_steps(fail) ==
    LET s1 == IF on_tty THEN Call(Cur, "set_canon_mode") ELSE Cur IN
    IF on_tty /\ fail = "set_canon_mode" THEN Failed(s1, Err("SetTerminalCanon"))
    ELSE LET s2 == IF on_tty THEN [s1 EXCEPT !.term = "canon"] ELSE s1
             s3 == IF signals.some
                   THEN Call([s2 EXCEPT !.signals = None,
                                 !.threads = [i \in 1..Len(threads) |->
                                     IF i = signals.v THEN "closed" ELSE threads[i]]],
                             "signals.close")
                   ELSE s2
             s4 == Call(s3, "device_manager.resume") IN
    IF fail = "device_manager.resume"
    THEN Failed(s4, Wrap("Resume", Err("DeviceManagerResume")))
    ELSE LET s5 == Call([s4 EXCEPT !.dev.paused = FALSE], "cpu_manager.shutdown") IN
    IF fail = "cpu_manager.shutdown"
    THEN Failed(s5, Wrap("CpuManager", Err("Shutdown")))
    ELSE LET s6 == [s5 EXCEPT !.cpu.vcpus = "stopped"]
             done == Joined(s6.threads)
             left == SubSeq(s6.threads, Len(done) + 1, Len(s6.threads))
             s7 == [s6 EXCEPT !.calls = @ \o [i \in 1..Len(done) |->
                                                 [call |-> "thread.join", r |-> "ok"]]] IN
    IF s6.threads # <<>> /\ fail = "thread.join"
    \* a handler thread that panicked: join returns Err, the Drain drops the rest
    THEN Failed([Call(s6, "thread.join") EXCEPT !.threads = <<>>],
                Err("ThreadCleanup"))
    ELSE IF left # <<>>
    \* join of a thread whose Signals was never closed does not return
    THEN [Call(s7, "thread.join") EXCEPT !.threads = left, !.pc = "joining",
                                         !.calls[Len(s7.calls) + 1].r = "pending",
                                         !.res = Err("Pending")]
    ELSE [s7 EXCEPT !.threads = <<>>, !.state = "Shutdown"]

\* Vm::shutdown without its transition check
shutdown_outcome_mut(fail) == shutdown_steps(fail)

\* Vm::shutdown
shutdown_outcome(fail) ==
    LET chk == valid_transition(state, "Shutdown") IN
    IF chk.kind # "Ok" THEN Return(Cur, chk)
    ELSE shutdown_steps(fail)

\* the child snapshots a Snapshot may hold
SnapshotIds == {"cpu-manager", "memory-manager", "device-manager"}

VM_SNAPSHOT_ID == "vm"

\* serde_json::to_vec(&VmSnapshot {config, clock, state}): the JSON object as
\* its members in the order the struct declares them
to_vec(vm_snapshot) ==
    <<[key |-> "config", value |-> vm_snapshot.config],
      [key |-> "clock", value |-> vm_snapshot.clock],
      [key |-> "state", value |-> vm_snapshot.state]>>

\* the value of a member of a JSON object
Member(bytes, key) ==
    LET i == CHOOSE j \in 1..Len(bytes) : bytes[j].key = key IN bytes[i].value

\* migration::get_vm_snapshot: the VmSnapshot read back from the data section
\* "vm-section" of a manifest
get_vm_snapshot(snapshot) ==
    LET section == CHOOSE d \in {snapshot.snapshot_data[i] :
                                    i \in 1..Len(snapshot.snapshot_data)} :
                       d.id = VM_SNAPSHOT_ID \o "-section" IN
    [config |-> Member(section.snapshot, "config"),
     clock |-> Member(section.snapshot, "clock"),
     state |-> Member(section.snapshot, "state")]

\* Snapshottable::snapshot returning a manifest when the Memory Manager's
\* snapshot failed
snapshot_outcome_mut(fail) ==
    LET s1 == Call(Cur, "vm.state")
        vm_snapshot_data == to_vec([config |-> config, clock |-> saved_clock,
                                    state |-> Some("vm_state")])
        s2 == Call(s1, "cpu_manager.snapshot")
        s3 == Call(s2, "memory_manager.snapshot") IN
    IF ~snapshot_allowed(state)
    THEN Return(Cur, Wrap("Snapshot", Err("Trying to snapshot while VM is running")))
    ELSE IF fail = "vm.state" THEN Failed(s1, Wrap("Snapshot", Err("VmState")))
    ELSE IF fail = "cpu_manager.snapshot" THEN Failed(s2, Err("CpuManagerSnapshot"))
    ELSE LET s4 == Call(IF fail = "memory_manager.snapshot"
                        THEN Reported(s3, "err") ELSE s3, "device_manager.snapshot") IN
    IF fail = "device_manager.snapshot" THEN Failed(s4, Err("DeviceManagerSnapshot"))
    ELSE Return(s4, [kind |-> "Ok", id |-> VM_SNAPSHOT_ID,
                     snapshots |-> IF fail = "memory_manager.snapshot"
                                   THEN <<"cpu-manager", "device-manager">>
                                   ELSE <<"cpu-manager", "memory-manager", "device-manager">>,
                     snapshot_data |-> <<[id |-> VM_SNAPSHOT_ID \o "-section",
                                          snapshot |-> vm_snapshot_data]>>])

\* Snapshottable::snapshot
snapshot_outcome(fail) ==
    LET current_state == state IN
    IF ~snapshot_allowed(current_state)
    THEN Return(Cur, Wrap("Snapshot", Err("Trying to snapshot while VM is running")))
    ELSE LET s1 == Call(Cur, "vm.state") IN
    IF fail = "vm.state" THEN Failed(s1, Wrap("Snapshot", Err("VmState")))
    ELSE LET vm_snapshot_data == to_vec([config |-> config, clock |-> saved_clock,
                                         state |-> Some("vm_state")])
             s2 == Call(s1, "cpu_manager.snapshot") IN
    IF fail = "cpu_manager.snapshot" THEN Failed(s2, Err("CpuManagerSnapshot"))
    ELSE LET s3 == Call(s2, "memory_manager.snapshot") IN
    IF fail = "memory_manager.snapshot" THEN Failed(s3, Err("MemoryManagerSnapshot"))
    ELSE LET s4 == Call(s3, "device_manager.snapshot") IN
    IF fail = "device_manager.snapshot" THEN Failed(s4, Err("DeviceManagerSnapshot"))
    ELSE Return(s4, [kind |-> "Ok", id |-> VM_SNAPSHOT_ID,
                     snapshots |-> <<"cpu-manager", "memory-manager", "device-manager">>,
                     snapshot_data |-> <<[id |-> VM_SNAPSHOT_ID \o "-section",
                                          snapshot |-> vm_snapshot_data]>>])

\* Snapshottable::restore restoring the Device Manager before the Memory
\* Manager and going on to the next subsystem when a child is missing
restore_outcome_device_first(snapshots, fail) ==
    LET current_state == state
        chk == valid_transition(current_state, "Paused") IN
    IF chk.kind # "Ok" THEN Return(Cur, Wrap("Restore", chk))
    ELSE LET s1 == IF "device-manager" \in snapshots
                   THEN Call(Cur, "device_manager.restore") ELSE Cur IN
    IF "device-manager" \in snapshots /\ fail = "device_manager.restore"
    THEN Failed(s1, Err("DeviceManagerRestore"))
    ELSE LET s2 == IF "device-manager" \in snapshots
                   THEN [s1 EXCEPT !.dev.restored = TRUE] ELSE s1
             s3 == IF "memory-manager" \in snapshots
                   THEN Call(s2, "memory_manager.restore") ELSE s2 IN
    IF "memory-manager" \in snapshots /\ fail = "memory_manager.restore"
    THEN Failed(s3, Err("MemoryManagerRestore"))
    ELSE LET s4 == IF "memory-manager" \in snapshots
                   THEN [s3 EXCEPT !.mem.restored = TRUE] ELSE s3 IN
    IF "cpu-manager" \notin snapshots
    THEN Return(s4, Wrap("Restore", Err("Missing CPU manager snapshot")))
    ELSE LET s5 == Call(s4, "cpu_manager.restore") IN
    IF fail = "cpu_manager.restore" THEN Failed(s5, Err("CpuManagerRestore"))
    ELSE LET s6 == console_outcome([s5 EXCEPT !.cpu.restored = TRUE], fail,
                        Wrap("Restore", Err("Could not start console signal thread")),
                        Wrap("Restore", Err("Could not set terminal in raw mode"))) IN
    IF s6.res.kind # "Ok" THEN s6
    ELSE [s6 EXCEPT !.state = "Paused"]

\* Snapshottable::restore
restore_outcome(snapshots, fail) ==
    LET current_state == state
        chk == valid_transition(current_state, "Paused") IN
    IF chk.kind # "Ok" THEN Return(Cur, Wrap("Restore", chk))
    ELSE IF "memory-manager" \notin snapshots
    THEN Return(Cur, Wrap("Restore", Err("Missing memory manager snapshot")))
    ELSE LET s1 == Call(Cur, "memory_manager.restore") IN
    IF fail = "memory_manager.restore" THEN Failed(s1, Err("MemoryManagerRestore"))
    ELSE LET s2 == [s1 EXCEPT !.mem.restored = TRUE] IN
    IF "device-manager" \notin snapshots
    THEN Return(s2, Wrap("Restore", Err("Missing device manager snapshot")))
    ELSE LET s3 == Call(s2, "device_manager.restore") IN
    IF fail = "device_manager.restore" THEN Failed(s3, Err("DeviceManagerRestore"))
    ELSE LET s4 == [s3 EXCEPT !.dev.restored = TRUE] IN
    IF "cpu-manager" \notin snapshots
    THEN Return(s4, Wrap("Restore", Err("Missing CPU manager snapshot")))
    ELSE LET s5 == Call(s4, "cpu_manager.restore") IN
    IF fail = "cpu_manager.restore" THEN Failed(s5, Err("CpuManagerRestore"))
    ELSE LET s6 == console_outcome([s5 EXCEPT !.cpu.restored = TRUE], fail,
                        Wrap("Restore", Err("Could not start console signal thread")),
                        Wrap("Restore", Err("Could not set terminal in raw mode"))) IN
    IF s6.res.kind # "Ok" THEN s6
    ELSE [s6 EXCEPT !.state = "Paused"]

\* the method returned (or blocked): its outcome becomes the state
Apply(op, arg, o) ==
    /\ state' = o.state
    /\ cpu_manager' = o.cpu
    /\ device_manager' = o.dev
    /\ memory_manager' = o.mem
    /\ saved_clock' = o.saved_clock
    /\ vm_clock' = o.vm_clock
    /\ term' = o.term
    /\ signals' = o.signals
    /\ threads' = o.threads
    /\ pc' = o.pc
    /\ calls' = o.calls
    /\ ret' = [op |-> op, arg |-> arg, res |-> o.res]
    /\ UNCHANGED <<on_tty, console_input, reconfig_vars, lock_vars, host_vars>>

PauseFails == {"none", "vm.get_clock", "cpu_manager.pause", "device_manager.pause"}
ResumeFails == {"none", "cpu_manager.resume", "vm.set_clock", "device_manager.resume"}
ConsoleFails == {"Signals::new", "thread.spawn", "set_raw_mode"}
BootFails == ResumeFails \cup ConsoleFails \cup
    {"load_kernel", "cpu_manager.create_boot_vcpus", "configure_system",
     "cpu_manager.start_boot_vcpus"}
ShutdownFails == {"none", "set_canon_mode", "device_manager.resume",
                  "cpu_manager.shutdown", "thread.join"}
SnapshotFails == {"none", "vm.state", "cpu_manager.snapshot",
                  "memory_manager.snapshot", "device_manager.snapshot"}
RestoreFails == ConsoleFails \cup
    {"none", "memory_manager.restore", "device_manager.restore", "cpu_manager.restore"}

Pause == pc = "idle" /\ \E f \in PauseFails :
             \E c \in (IF f = "vm.get_clock" THEN {[value |-> 0, flags |-> 0]} ELSE ClockData) :
                 Apply("pause", <<>>, pause_outcome(f, c))
Resume == pc = "idle" /\ \E f \in ResumeFails : Apply("resume", <<>>, resume_outcome(f))
Boot == pc = "idle" /\ \E f \in BootFails : Apply("boot", <<>>, boot_outcome(f))
Shutdown == pc = "idle" /\ \E f \in ShutdownFails :
                Apply("shutdown", <<>>, shutdown_outcome(f))
SnapshotCall == pc = "idle" /\ \E f \in SnapshotFails :
                    Apply("snapshot", <<>>, snapshot_outcome(f))
\* a complete snapshot is restored with any one call failing; an incomplete one
\* fails at its first missing child whatever else would fail
Restore == pc = "idle" /\ \E sn \in SUBSET SnapshotIds :
               \E f \in (IF sn = SnapshotIds THEN RestoreFails ELSE {"none"}) :
                   Apply("restore", sn, restore_outcome(sn, f))

\* tests::test_vm_state_transitions: valid_transition called on a pair of states
TestTransition ==
    /\ pc = "idle"
    /\ \E s \in VmState, t \in VmState :
           /\ ret' = [op |-> "valid_transition", arg |-> <<s, t>>,
                      res |-> valid_transition(s, t)]
           /\ calls' = <<>>
    /\ UNCHANGED <<lifecycle_vars, reconfig_vars, lock_vars, host_vars>>

----------------------------------------------------------------------------
(* The hot-plug coordinator (feature pci_support).  A device config is its *)
(* id: Option<String>; the Device Manager is the set of ids it holds.      *)

\* the id a caller names is 0; the ids the Device Manager gives are 1..MaxDevices
DeviceIds == {0}
DeviceCfgs == {[id |-> i] : i \in {None} \cup {Some(n) : n \in DeviceIds}}
SeqFields == {"devices", "disks", "fs", "pmem", "net"}

CurR ==
    [config |-> config, dm_devices |-> dm_devices, cpu_vcpus |-> cpu_vcpus,
     mm_size |-> mm_size, mm_balloon |-> mm_balloon, calls |-> <<>>, res |-> Ok]

\* DeviceManager::add_*: it refuses an id it already holds and a device beyond
\* MaxDevices
DmAccepts(cfg) ==
    /\ Cardinality(dm_devices) < MaxDevices
    /\ cfg.id.some => cfg.id.v \notin dm_devices

\* DeviceManager::add_* is handed &mut cfg: it names a device that has no id
DmNamed(cfg) ==
    IF cfg.id.some THEN cfg
    ELSE [cfg EXCEPT !.id = Some(CHOOSE n \in 1..MaxDevices : n \notin dm_devices)]

\* DeviceManager::remove_device: it removes a device it holds
DmRemoves(id) == id \in dm_devices

\* if let Some(v) = config.X.as_mut() { v.push(cfg) } else { config.X = Some(vec![cfg]) }
push(sequence, cfg) ==
    IF sequence.some THEN Some(Append(sequence.v, cfg)) ELSE Some(<<cfg>>)

\* the retain with the test inverted: it keeps the entries with the id
retain_mut(sequence, id) ==
    IF sequence.some
    THEN Some(SelectSeq(sequence.v, LAMBDA dev : dev.id = Some(id)))
    ELSE sequence

\* if let Some(v) = config.X.as_mut() { v.retain(|dev| dev.id.as_ref() != Some(&id)) }
retain(sequence, id) ==
    IF sequence.some
    THEN Some(SelectSeq(sequence.v, LAMBDA dev : dev.id # Some(id)))
    ELSE sequence

PCI_DEVICES_CHANGED == "device_manager.notify_hotplug(PCI_DEVICES_CHANGED)"
CPU_DEVICES_CHANGED == "device_manager.notify_hotplug(CPU_DEVICES_CHANGED)"
MEMORY_DEVICES_CHANGED == "device_manager.notify_hotplug(MEMORY_DEVICES_CHANGED)"

\* the body of the sequence adds with the config updated before the Device
\* Manager is asked, so a refused device stays in the config
add_to_mut(field, cfg, fail) ==
    LET s0 == [CurR EXCEPT !.config[field] = push(@, cfg)]
        s1 == Call(s0, "device_manager.add_" \o field) IN
    IF fail = "add" \/ ~DmAccepts(cfg)
    THEN Failed(s1, Wrap("DeviceManager", Err("add_" \o field)))
    ELSE LET named == DmNamed(cfg)
             s2 == [s1 EXCEPT !.dm_devices = @ \cup {named.id.v}]
             s3 == Call(s2, PCI_DEVICES_CHANGED) IN
    IF fail = "notify_hotplug"
    THEN Failed(s3, Wrap("DeviceManager", Err("notify_hotplug")))
    ELSE s3

\* the body the five sequence adds share: Device Manager add, config push, notify
add_to(field, cfg, fail) ==
    LET s1 == Call(CurR, "device_manager.add_" \o field) IN
    IF fail = "add" \/ ~DmAccepts(cfg)
    THEN Failed(s1, Wrap("DeviceManager", Err("add_" \o field)))
    ELSE LET named == DmNamed(cfg)
             s2 == [s1 EXCEPT !.dm_devices = @ \cup {named.id.v},
                              !.config[field] = push(@, named)]
             s3 == Call(s2, PCI_DEVICES_CHANGED) IN
    IF fail = "notify_hotplug"
    THEN Failed(s3, Wrap("DeviceManager", Err("notify_hotplug")))
    ELSE s3

add_device(cfg, fail) == add_to("devices", cfg, fail)
add_disk(cfg, fail) == add_to("disks", cfg, fail)
add_fs(cfg, fail) == add_to("fs", cfg, fail)
add_pmem(cfg, fail) == add_to("pmem", cfg, fail)
add_net(cfg, fail) == add_to("net", cfg, fail)

\* Vm::add_vsock without the check for an existing vsock
add_vsock_mut(cfg, fail) ==
    LET s1 == Call(CurR, "device_manager.add_vsock") IN
    IF fail = "add" \/ ~DmAccepts(cfg)
    THEN Failed(s1, Wrap("DeviceManager", Err("add_vsock")))
    ELSE LET named == DmNamed(cfg)
             s2 == [s1 EXCEPT !.dm_devices = @ \cup {named.id.v},
                              !.config.vsock = Some(named)]
             s3 == Call(s2, PCI_DEVICES_CHANGED) IN
    IF fail = "notify_hotplug"
    THEN Failed(s3, Wrap("DeviceManager", Err("notify_hotplug")))
    ELSE s3

add_vsock(cfg, fail) ==
    IF config.vsock.some THEN Return(CurR, Err("TooManyVsockDevices"))
    ELSE LET s1 == Call(CurR, "device_manager.add_vsock") IN
    IF fail = "add" \/ ~DmAccepts(cfg)
    THEN Failed(s1, Wrap("DeviceManager", Err("add_vsock")))
    ELSE LET named == DmNamed(cfg)
             s2 == [s1 EXCEPT !.dm_devices = @ \cup {named.id.v},
                              !.config.vsock = Some(named)]
             s3 == Call(s2, PCI_DEVICES_CHANGED) IN
    IF fail = "notify_hotplug"
    THEN Failed(s3, Wrap("DeviceManager", Err("notify_hotplug")))
    ELSE s3

\* Vm::remove_device scrubbing the config before it asks the Device Manager
remove_device_scrub_first(id, fail) ==
    LET c == config
        s0 == [CurR EXCEPT
                 !.config = [c EXCEPT
                     !.devices = retain(@, id),
                     !.disks = retain(@, id),
                     !.net = retain(@, id),
                     !.pmem = retain(@, id),
                     !.vsock = IF @.some /\ @.v.id = Some(id) THEN None ELSE @]]
        s1 == Call(s0, "device_manager.remove_device") IN
    IF fail = "remove" \/ ~DmRemoves(id)
    THEN Failed(s1, Wrap("DeviceManager", Err("remove_device")))
    ELSE LET s2 == [s1 EXCEPT !.dm_devices = @ \ {id}]
             s3 == Call(s2, PCI_DEVICES_CHANGED) IN
    IF fail = "notify_hotplug"
    THEN Failed(s3, Wrap("DeviceManager", Err("notify_hotplug")))
    ELSE s3

\* Vm::remove_device
remove_device(id, fail) ==
    LET s1 == Call(CurR, "device_manager.remove_device") IN
    IF fail = "remove" \/ ~DmRemoves(id)
    THEN Failed(s1, Wrap("DeviceManager", Err("remove_device")))
    ELSE LET c == config
             s2 == [s1 EXCEPT
                      !.dm_devices = @ \ {id},
                      !.config = [c EXCEPT
                          !.devices = retain(@, id),
                          !.disks = retain(@, id),
                          !.net = retain(@, id),
                          !.pmem = retain(@, id),
                          !.vsock = IF @.some /\ @.v.id = Some(id) THEN None ELSE @]]
             s3 == Call(s2, PCI_DEVICES_CHANGED) IN
    IF fail = "notify_hotplug"
    THEN Failed(s3, Wrap("DeviceManager", Err("notify_hotplug")))
    ELSE s3

ApplyR(op, arg, o) ==
    /\ config' = o.config
    /\ dm_devices' = o.dm_devices
    /\ cpu_vcpus' = o.cpu_vcpus
    /\ mm_size' = o.mm_size
    /\ mm_balloon' = o.mm_balloon
    /\ calls' = o.calls
    /\ ret' = [op |-> op, arg |-> arg, res |-> o.res]
    /\ UNCHANGED <<lifecycle_vars, lock_vars, host_vars>>

\* a hot-plug add is called while the sequence it extends has room
Room(field) == config[field].some => Len(config[field].v) < MaxEntries

AddFails == {"none", "add", "notify_hotplug"}
RemoveFails == {"none", "remove", "notify_hotplug"}

AddDevice == Room("devices") /\ \E cfg \in DeviceCfgs, f \in AddFails :
    ApplyR("add_device", cfg, add_device(cfg, f))
AddDisk == Room("disks") /\ \E cfg \in DeviceCfgs, f \in AddFails :
    ApplyR("add_disk", cfg, add_disk(cfg, f))
AddFs == Room("fs") /\ \E cfg \in DeviceCfgs, f \in AddFails :
    ApplyR("add_fs", cfg, add_fs(cfg, f))
AddPmem == Room("pmem") /\ \E cfg \in DeviceCfgs, f \in AddFails :
    ApplyR("add_pmem", cfg, add_pmem(cfg, f))
AddNet == Room("net") /\ \E cfg \in DeviceCfgs, f \in AddFails :
    ApplyR("add_net", cfg, add_net(cfg, f))
AddVsock == \E cfg \in DeviceCfgs, f \in AddFails :
                ApplyR("add_vsock", cfg, add_vsock(cfg, f))
\* the id removed is one a caller may name or one the Device Manager gave
RemoveDevice == \E id \in 0..MaxDevices, f \in RemoveFails :
                    ApplyR("remove_device", id, remove_device(id, f))

----------------------------------------------------------------------------
(* The resize coordinator.                                                 *)

\* CpuManager::resize(desired) -> bool: whether the live topology changed
CpuResizeChanged(desired) == desired # cpu_vcpus

\* the vCPU arm with the config written only when the CPU Manager reported a
\* change
resize_vcpus_mut(s, desired_vcpus, fail) ==
    IF ~desired_vcpus.some THEN s
    ELSE LET s1 == Call(s, "cpu_manager.resize") IN
    IF fail = "cpu_manager.resize"
    THEN Failed(s1, Wrap("CpuManager", Err("resize")))
    ELSE LET changed == CpuResizeChanged(desired_vcpus.v)
             s2 == [Reported(s1, IF changed THEN "Ok(true)" ELSE "Ok(false)")
                       EXCEPT !.cpu_vcpus = desired_vcpus.v]
             s3 == IF changed THEN Call(s2, CPU_DEVICES_CHANGED) ELSE s2 IN
    IF changed /\ fail = "notify_hotplug(CPU)"
    THEN Failed(s3, Wrap("DeviceManager", Err("notify_hotplug")))
    ELSE IF changed THEN [s3 EXCEPT !.config.cpus.boot_vcpus = desired_vcpus.v]
         ELSE s3

\* Vm::resize, the desired_vcpus arm
resize_vcpus(s, desired_vcpus, fail) ==
    IF ~desired_vcpus.some THEN s
    ELSE LET s1 == Call(s, "cpu_manager.resize") IN
    IF fail = "cpu_manager.resize"
    THEN Failed(s1, Wrap("CpuManager", Err("resize")))
    ELSE LET changed == CpuResizeChanged(desired_vcpus.v)
             s2 == [Reported(s1, IF changed THEN "Ok(true)" ELSE "Ok(false)")
                       EXCEPT !.cpu_vcpus = desired_vcpus.v]
             s3 == IF changed THEN Call(s2, CPU_DEVICES_CHANGED) ELSE s2 IN
    IF changed /\ fail = "notify_hotplug(CPU)"
    THEN Failed(s3, Wrap("DeviceManager", Err("notify_hotplug")))
    ELSE [s3 EXCEPT !.config.cpus.boot_vcpus = desired_vcpus.v]

\* the desired_memory arm notifying MEMORY_DEVICES_CHANGED for either hot-plug
\* method and writing the config only when a region was allocated
resize_memory_notify_always(s, desired_memory, fail, region) ==
    IF ~desired_memory.some THEN s
    ELSE LET s1 == Call(s, "memory_manager.resize") IN
    IF fail = "memory_manager.resize"
    THEN Failed(s1, Wrap("MemoryManager", Err("resize")))
    ELSE LET s2 == [Reported(s1, IF region THEN "Ok(Some)" ELSE "Ok(None)")
                       EXCEPT !.mm_size = desired_memory.v]
             s3 == IF region THEN Call(s2, "device_manager.update_memory") ELSE s2 IN
    IF region /\ fail = "device_manager.update_memory"
    THEN Failed(s3, Wrap("DeviceManager", Err("update_memory")))
    ELSE LET s4 == IF region THEN Call(s3, MEMORY_DEVICES_CHANGED) ELSE s3 IN
    IF region /\ fail = "notify_hotplug(MEMORY)"
    THEN Failed(s4, Wrap("DeviceManager", Err("notify_hotplug")))
    ELSE IF region THEN [s4 EXCEPT !.config.memory.size = desired_memory.v] ELSE s4

\* Vm::resize, the desired_memory arm.  region: whether MemoryManager::resize
\* allocated a new region
resize_memory(s, desired_memory, fail, region) ==
    IF ~desired_memory.some THEN s
    ELSE LET s1 == Call(s, "memory_manager.resize") IN
    IF fail = "memory_manager.resize"
    THEN Failed(s1, Wrap("MemoryManager", Err("resize")))
    ELSE LET s2 == [Reported(s1, IF region THEN "Ok(Some)" ELSE "Ok(None)")
                       EXCEPT !.mm_size = desired_memory.v]
             s3 == IF region THEN Call(s2, "device_manager.update_memory") ELSE s2 IN
    IF region /\ fail = "device_manager.update_memory"
    THEN Failed(s3, Wrap("DeviceManager", Err("update_memory")))
    ELSE LET acpi == region /\ s3.config.memory.hotplug_method = "Acpi"
             s4 == IF acpi THEN Call(s3, MEMORY_DEVICES_CHANGED) ELSE s3 IN
    IF acpi /\ fail = "notify_hotplug(MEMORY)"
    THEN Failed(s4, Wrap("DeviceManager", Err("notify_hotplug")))
    ELSE [s4 EXCEPT !.config.memory.size = desired_memory.v]

\* Vm::resize, the desired_ram_w_balloon arm.  actual: the balloon size
\* MemoryManager::balloon_resize returns
resize_balloon(s, desired_ram_w_balloon, fail, actual) ==
    IF ~desired_ram_w_balloon.some THEN s
    ELSE LET s1 == Call(s, "memory_manager.balloon_resize") IN
    IF fail = "memory_manager.balloon_resize"
    THEN Failed(s1, Wrap("MemoryManager", Err("balloon_resize")))
    ELSE [s1 EXCEPT !.mm_balloon = actual, !.config.memory.balloon_size = actual]

\* Vm::resize going on to the next arm after an arm failed, the last error
\* returned
resize_every_arm(desired_vcpus, desired_memory, desired_ram_w_balloon, fail, region, actual) ==
    LET a1 == resize_vcpus(CurR, desired_vcpus, fail)
        a2 == resize_memory(a1, desired_memory, fail, region) IN
    resize_balloon(a2, desired_ram_w_balloon, fail, actual)

\* Vm::resize: the three arms in order, the first error returned
resize(desired_vcpus, desired_memory, desired_ram_w_balloon, fail, region, actual) ==
    LET a1 == resize_vcpus(CurR, desired_vcpus, fail) IN
    IF a1.res.kind # "Ok" THEN a1
    ELSE LET a2 == resize_memory(a1, desired_memory, fail, region) IN
    IF a2.res.kind # "Ok" THEN a2
    ELSE resize_balloon(a2, desired_ram_w_balloon, fail, actual)

Amounts == {None} \cup {Some(n) : n \in 1..MaxResize}
\* the calls of the requested arms, any one of which may fail
ResizeFails(dv, dm, db) ==
    {"none"}
    \cup (IF dv.some THEN {"cpu_manager.resize", "notify_hotplug(CPU)"} ELSE {})
    \cup (IF dm.some THEN {"memory_manager.resize", "device_manager.update_memory",
                           "notify_hotplug(MEMORY)"} ELSE {})
    \cup (IF db.some THEN {"memory_manager.balloon_resize"} ELSE {})

Resize ==
    \E dv \in Amounts, dm \in Amounts, db \in Amounts :
      \E f \in ResizeFails(dv, dm, db) :
        \E region \in (IF dm.some THEN BOOLEAN ELSE {FALSE}) :
            \E actual \in (IF db.some THEN 0..MaxResize ELSE {0}) :
                ApplyR("resize", <<dv, dm, db>>, resize(dv, dm, db, f, region, actual))

----------------------------------------------------------------------------
(* Construction.  Vm::new_from_memory_manager leaves the state Created,    *)
(* no signals, no threads; new() passes no saved clock, new_from_snapshot  *)
(* the snapshot's.  The terminal is canonical until a boot sets it raw.    *)

\* the configurations a Vm is constructed with: no device sequence yet, one
\* boot vCPU, one unit of memory, either memory hot-plug method
VmConfigs ==
    {[devices |-> None, disks |-> None, fs |-> None, pmem |-> None, net |-> None,
      vsock |-> None,
      cpus |-> [boot_vcpus |-> 1],
      memory |-> [size |-> 1, balloon_size |-> 0, hotplug_method |-> m],
      cmdline |-> [args |-> <<"a">>]] :
        m \in {"Acpi", "VirtioMem"}}

\* the fields and collaborators of a Vm that new() or new_from_snapshot() returned
\* on a terminal or not, with console input or not
InitLifecycle ==
    /\ state = "Created"
    /\ cpu_manager = [vcpus |-> "none", paused |-> FALSE, restored |-> FALSE]
    /\ device_manager = [paused |-> FALSE, restored |-> FALSE]
    /\ memory_manager = [restored |-> FALSE]
    /\ saved_clock \in {None} \cup {Some(c) : c \in {d \in ClockData : d.flags = 0}}
    /\ vm_clock = None
    /\ term = "canon"
    /\ on_tty \in BOOLEAN
    /\ console_input \in BOOLEAN
    /\ signals = None
    /\ threads = <<>>
    /\ pc = "idle"

\* the managers are constructed from the configuration: they hold what it lists
InitReconfig ==
    /\ config \in VmConfigs
    /\ dm_devices = {}
    /\ cpu_vcpus = config.cpus.boot_vcpus
    /\ mm_size = config.memory.size
    /\ mm_balloon = config.memory.balloon_size

InitCall ==
    /\ calls = <<>>
    /\ ret = [op |-> "new", arg |-> <<>>, res |-> Ok]
    /\ held = <<>>
    /\ running = [method |-> "none", pos |-> 0]

\* the destination directories, and the files send may find or leave in one
Dirs == {"/a", "/b"}
EmptyDir == [snapshot_file |-> None, memory |-> FALSE]

\* nothing was sent yet and the process runs
InitHost ==
    /\ files = [dir \in Dirs |-> EmptyDir]
    /\ process = [exit |-> None, console_size |-> None]

\* lifecycle runs: every terminal and console setting, one configuration
Init ==
    /\ InitLifecycle
    /\ InitReconfig
    /\ config.memory.hotplug_method = "Acpi"
    /\ InitCall
    /\ InitHost

\* reconfiguration runs: every configuration, a Vm new() returned off a terminal
InitConfigured ==
    /\ InitLifecycle
    /\ saved_clock = None
    /\ ~on_tty
    /\ ~console_input
    /\ InitReconfig
    /\ InitCall
    /\ InitHost

Next ==
    \/ Boot
    \/ Pause
    \/ Resume
    \/ Shutdown
    \/ SnapshotCall
    \/ Restore

\* the lifecycle of one Vm
Spec == Init /\ [][Next]_vars

\* valid_transition called on every pair of states
SpecTransitions == Init /\ [][TestTransition]_vars

----------------------------------------------------------------------------
(* The boot loader driver, x86_64.  A string is the sequence of its bytes. *)

KERNEL_64BIT_ENTRY_OFFSET == 512

\* the configured command lines and the entries devices contribute
CmdlineArgs == UNION {[1..n -> {"a", "b"}] : n \in 0..MaxArgs}
CmdlineAdditions == UNION {[1..n -> {<<"x">>, <<"y", "z">>}] : n \in 0..MaxAdditions}

\* linux_loader Cmdline::insert_str: the string is appended, after a space when
\* the line is not empty, unless the line would reach its capacity
insert_str(line, slice) ==
    LET sep == IF line = <<>> THEN <<>> ELSE <<" ">> IN
    IF Len(line) + Len(sep) + Len(slice) >= CmdlineMaxSize
    THEN Err("TooLarge")
    ELSE [kind |-> "Ok", line |-> line \o sep \o slice]

RECURSIVE insert_all(_, _)
\* the loop of get_cmdline over the entries, left at the first error
insert_all(line, entries) ==
    IF entries = <<>> THEN [kind |-> "Ok", line |-> line]
    ELSE LET r == insert_str(line, Head(entries)) IN
         IF r.kind # "Ok" THEN r ELSE insert_all(r.line, Tail(entries))

\* Vm::get_cmdline with the device entries inserted before the user's arguments
get_cmdline_mut(args, cmdline_additions) ==
    LET r == insert_all(<<>>, Append(cmdline_additions, args)) IN
    IF r.kind # "Ok" THEN Wrap("CmdLineInsertStr", r)
    ELSE [kind |-> "Ok", cmdline |-> r.line]

\* Vm::get_cmdline.  args: config.cmdline.args; cmdline_additions: what the
\* Device Manager lists
get_cmdline(args, cmdline_additions) ==
    LET r1 == insert_str(<<>>, args) IN
    IF r1.kind # "Ok" THEN Wrap("CmdLineInsertStr", r1)
    ELSE LET r2 == insert_all(r1.line, cmdline_additions) IN
    IF r2.kind # "Ok" THEN Wrap("CmdLineInsertStr", r2)
    ELSE [kind |-> "Ok", cmdline |-> r2.line]

\* guest addresses
AddressMax == 2 ^ AddressBits - 1
Addresses == {256, AddressMax - KERNEL_64BIT_ENTRY_OFFSET,
              AddressMax - KERNEL_64BIT_ENTRY_OFFSET + 1}

\* u64::wrapping_add in the place of checked_add: the sum modulo 2^AddressBits
wrapping_add(a, b) == Some((a + b) % (AddressMax + 1))

\* u64::checked_add
checked_add(a, b) == IF a + b > AddressMax THEN None ELSE Some(a + b)

\* what a kernel loader returns: KernelLoaderResult or its error
KernelLoaderResults ==
    [kind : {"Ok"}, kernel_load : Addresses, setup_header : {None, Some("hdr")},
     pvh_boot_cap : {[present |-> FALSE, addr |-> 0], [present |-> TRUE, addr |-> 768]}]
ElfResults == KernelLoaderResults \cup {Err("InvalidElfMagicNumber"), Err("ReadElfHeader")}
BzImageResults == KernelLoaderResults \cup {Err("InvalidBzImage")}

\* the entry point Vm::load_kernel builds from what the loader returned
entry_point_of(entry_addr) ==
    IF entry_addr.setup_header.some
    THEN LET load_addr == checked_add(entry_addr.kernel_load, KERNEL_64BIT_ENTRY_OFFSET) IN
         IF ~load_addr.some THEN Err("MemOverflow")
         ELSE [kind |-> "Ok", entry_addr |-> load_addr.v, protocol |-> "LinuxBoot",
               setup_header |-> entry_addr.setup_header]
    ELSE IF entry_addr.pvh_boot_cap.present
    THEN [kind |-> "Ok", entry_addr |-> entry_addr.pvh_boot_cap.addr,
          protocol |-> "PvhBoot", setup_header |-> None]
    ELSE [kind |-> "Ok", entry_addr |-> entry_addr.kernel_load,
          protocol |-> "LinuxBoot", setup_header |-> None]

\* the loaders of load_kernel with the bzImage loader tried after every ELF
\* error
load_image_mut(s, elf, bz) ==
    LET s1 == Call(s, "Elf::load") IN
    IF elf.kind = "Ok" THEN [s1 EXCEPT !.res = elf]
    ELSE LET s2 == Call(Reported(s1, "err"), "BzImage::load") IN
         IF bz.kind = "Ok" THEN [s2 EXCEPT !.res = bz]
         ELSE Failed(s2, Wrap("KernelLoad", bz))

\* what the loaders leave in entry_addr, or the error load_kernel returns.  elf,
\* bz: what Elf::load and BzImage::load return when called
load_image(s, elf, bz) ==
    LET s1 == Call(s, "Elf::load") IN
    IF elf.kind = "Ok" THEN [s1 EXCEPT !.res = elf]
    ELSE IF elf = Err("InvalidElfMagicNumber")
    THEN LET s2 == Call(Reported(s1, "err"), "BzImage::load") IN
         IF bz.kind = "Ok" THEN [s2 EXCEPT !.res = bz]
         ELSE Failed(s2, Wrap("KernelLoad", bz))
    ELSE Failed(s1, Wrap("KernelLoad", elf))

\* Vm::load_kernel, x86_64: the entry point and the command line it loaded
load_kernel(cmdline_additions, elf, bz, fail) ==
    LET s0 == [calls |-> <<>>, res |-> Ok]
        cmdline_cstring == get_cmdline(config.cmdline.args, cmdline_additions) IN
    IF cmdline_cstring.kind # "Ok" THEN Return(s0, cmdline_cstring)
    ELSE LET s2 == load_image(s0, elf, bz) IN
    IF s2.res.kind # "Ok" THEN s2
    ELSE LET s3 == Call(s2, "load_cmdline") IN
    IF fail = "load_cmdline" THEN Failed(s3, Wrap("LoadCmdLine", Err("load_cmdline")))
    ELSE LET e == entry_point_of(s2.res) IN
    IF e.kind # "Ok" THEN Return(s3, e)
    ELSE Return(s3, [kind |-> "Ok", entry_point |-> e,
                     cmdline |-> cmdline_cstring.cmdline])

\* Vm::configure_system, x86_64: the command line it composes and the size it
\* hands to arch::configure_system
configure_system(entry_addr, cmdline_additions, fail) ==
    LET s0 == [calls |-> <<>>, res |-> Ok]
        cmdline_cstring == get_cmdline(config.cmdline.args, cmdline_additions) IN
    IF cmdline_cstring.kind # "Ok" THEN Return(s0, cmdline_cstring)
    ELSE LET s1 == Call(s0, "arch::configure_system") IN
    IF fail = "arch::configure_system"
    THEN Failed(s1, Wrap("ConfigureSystem", Err("configure_system")))
    ELSE Return(s1, [kind |-> "Ok", cmdline |-> cmdline_cstring.cmdline,
                     cmdline_size |-> Len(cmdline_cstring.cmdline) + 1,
                     protocol |-> IF entry_addr.setup_header.some THEN "LinuxBoot"
                                  ELSE entry_addr.protocol])

\* a private method of boot ran: it changes no field of the Vm
ApplyLoader(op, arg, o) ==
    /\ calls' = o.calls
    /\ ret' = [op |-> op, arg |-> arg, res |-> o.res]
    /\ UNCHANGED <<lifecycle_vars, reconfig_vars, lock_vars, host_vars>>

\* boot's call of load_kernel; the bzImage loader's answer matters only when it
\* is called
LoadKernel ==
    /\ pc = "idle"
    /\ \E cmdline_additions \in CmdlineAdditions, elf \in ElfResults,
          fail \in {"none", "load_cmdline"} :
         \E bz \in (IF elf = Err("InvalidElfMagicNumber") THEN BzImageResults
                    ELSE {Err("InvalidBzImage")}) :
             ApplyLoader("load_kernel",
                         [cmdline_additions |-> cmdline_additions, elf |-> elf, bz |-> bz],
                         load_kernel(cmdline_additions, elf, bz, fail))

\* boot's call of configure_system with the entry point load_kernel returned;
\* the Device Manager is asked for its entries again
ConfigureSystem ==
    /\ pc = "idle"
    /\ ret.op = "load_kernel"
    /\ ret.res.kind = "Ok"
    /\ \E cmdline_additions \in CmdlineAdditions,
          fail \in {"none", "arch::configure_system"} :
         ApplyLoader("configure_system",
                     [cmdline_additions |-> cmdline_additions,
                      loaded |-> [cmdline_additions |-> ret.arg.cmdline_additions,
                                  cmdline |-> ret.res.cmdline]],
                     configure_system(ret.res.entry_point, cmdline_additions, fail))

NextLoader ==
    \/ LoadKernel
    \/ ConfigureSystem

----------------------------------------------------------------------------
(* NUMA.  The Memory Manager's numa_nodes map a node id to the node's cpus *)
(* and its distance map (destination -> distance).                         *)

NodeIds == 0..MaxNode
NumaDistances == [destination : NodeIds, distance : {10}]
\* a NumaConfig lists no cpus or one, and no distance, one or two
NumaConfigs ==
    [id : NodeIds,
     cpus : {None, Some(<<0>>)},
     distances : {None} \cup {Some(<<d>>) : d \in NumaDistances}
                 \cup {Some(<<d1, d2>>) : d1 \in NumaDistances, d2 \in NumaDistances}]
\* config.numa: up to two NumaConfigs
NumaConfigLists ==
    {<<>>} \cup {<<c>> : c \in NumaConfigs}
           \cup {<<c1, c2>> : c1 \in NumaConfigs, c2 \in NumaConfigs}

\* the nodes the Memory Manager declares, before update_numa
NewNodes(ids) == [n \in ids |-> [cpus |-> <<>>, distances |-> {}]]

\* BTreeMap::insert(dest, dist)
insert(map, dest, dist) ==
    {e \in map : e.destination # dest} \cup {[destination |-> dest, distance |-> dist]}

RECURSIVE insert_distances_mut(_, _, _, _)
\* the loop over the distances with no check of the destination
insert_distances_mut(numa_nodes, id, distances, existing_nodes) ==
    IF distances = <<>> THEN [res |-> Ok, numa_nodes |-> numa_nodes]
    ELSE LET dest == Head(distances).destination
             dist == Head(distances).distance IN
         insert_distances_mut(
             [numa_nodes EXCEPT ![id].distances = insert(@, dest, dist)],
             id, Tail(distances), existing_nodes)

RECURSIVE insert_distances(_, _, _, _)
\* Vm::update_numa, the loop over the distances of one NumaConfig
insert_distances(numa_nodes, id, distances, existing_nodes) ==
    IF distances = <<>> THEN [res |-> Ok, numa_nodes |-> numa_nodes]
    ELSE LET dest == Head(distances).destination
             dist == Head(distances).distance IN
         IF dest \notin existing_nodes
         THEN [res |-> Err("InvalidNumaConfig"), numa_nodes |-> numa_nodes]
         ELSE insert_distances(
                  [numa_nodes EXCEPT ![id].distances = insert(@, dest, dist)],
                  id, Tail(distances), existing_nodes)

RECURSIVE update_nodes(_, _, _)
\* Vm::update_numa, the loop over the NumaConfigs
update_nodes(numa_nodes, configs, existing_nodes) ==
    IF configs = <<>> THEN [res |-> Ok, numa_nodes |-> numa_nodes]
    ELSE LET cfg == Head(configs) IN
         IF cfg.id \notin DOMAIN numa_nodes
         THEN [res |-> Err("InvalidNumaConfig"), numa_nodes |-> numa_nodes]
         ELSE LET n1 == IF cfg.cpus.some
                        THEN [numa_nodes EXCEPT ![cfg.id].cpus = @ \o cfg.cpus.v]
                        ELSE numa_nodes
                  r == IF cfg.distances.some
                       THEN insert_distances(n1, cfg.id, cfg.distances.v, existing_nodes)
                       ELSE [res |-> Ok, numa_nodes |-> n1] IN
              IF r.res.kind # "Ok" THEN r
              ELSE update_nodes(r.numa_nodes, Tail(configs), existing_nodes)

\* Vm::update_numa: its result and the Memory Manager's nodes when it returns
update_numa(configs, numa_nodes) ==
    LET existing_nodes == DOMAIN numa_nodes
        r == update_nodes(numa_nodes, configs, existing_nodes) IN
    [kind |-> r.res.kind, numa_nodes |-> r.numa_nodes]

\* new_from_memory_manager's call of update_numa, once, on the nodes a Memory
\* Manager declares
UpdateNuma ==
    /\ pc = "idle"
    /\ ret.op = "new"
    /\ \E ids \in SUBSET NodeIds, configs \in NumaConfigLists :
         ApplyLoader("update_numa", [existing_nodes |-> ids, configs |-> configs],
                     [calls |-> <<>>, res |-> update_numa(configs, NewNodes(ids))])

\* Vm::new_from_memory_manager: the fields of the Vm it returns, or its error
new_from_memory_manager(cfg, _saved_clock, fail) ==
    IF fail = "config.validate" THEN [res |-> Wrap("ConfigValidation", Err("validate"))]
    ELSE IF fail = "DeviceManager::new" THEN [res |-> Wrap("DeviceManager", Err("new"))]
    ELSE IF fail = "CpuManager::new" THEN [res |-> Wrap("CpuManager", Err("new"))]
    ELSE IF fail = "File::open(kernel)" THEN [res |-> Wrap("KernelFile", Err("open"))]
    ELSE [res |-> Ok, config |-> cfg, state |-> "Created", signals |-> None,
          threads |-> <<>>, saved_clock |-> _saved_clock]

\* Vm::new_from_snapshot with the vsock of the snapshot's config left out
new_from_snapshot_mut(snapshot, fail) ==
    LET vm_snapshot == get_vm_snapshot(snapshot)
        cfg == [vm_snapshot.config EXCEPT !.vsock = None] IN
    IF vm_snapshot.state.some /\ fail = "vm.set_state"
    THEN [res |-> Wrap("Restore", Wrap("Restore", Err("set_state")))]
    ELSE IF \A i \in 1..Len(snapshot.snapshots) : snapshot.snapshots[i] # "memory-manager"
    THEN [res |-> Wrap("Restore", Wrap("Restore", Err("Missing memory manager snapshot")))]
    ELSE IF fail = "MemoryManager::new_from_snapshot"
    THEN [res |-> Wrap("MemoryManager", Err("new_from_snapshot"))]
    ELSE new_from_memory_manager(cfg, vm_snapshot.clock, fail)

\* Vm::new_from_snapshot, x86_64
new_from_snapshot(snapshot, fail) ==
    LET vm_snapshot == get_vm_snapshot(snapshot)
        cfg == vm_snapshot.config IN
    IF vm_snapshot.state.some /\ fail = "vm.set_state"
    THEN [res |-> Wrap("Restore", Wrap("Restore", Err("set_state")))]
    ELSE IF \A i \in 1..Len(snapshot.snapshots) : snapshot.snapshots[i] # "memory-manager"
    THEN [res |-> Wrap("Restore", Wrap("Restore", Err("Missing memory manager snapshot")))]
    ELSE IF fail = "MemoryManager::new_from_snapshot"
    THEN [res |-> Wrap("MemoryManager", Err("new_from_snapshot"))]
    ELSE new_from_memory_manager(cfg, vm_snapshot.clock, fail)

NewFromSnapshotFails ==
    {"none", "vm.set_state", "MemoryManager::new_from_snapshot", "config.validate",
     "DeviceManager::new", "CpuManager::new", "File::open(kernel)"}

\* the manifest snapshot returned last is handed to new_from_snapshot on a fresh
\* orchestrator: when it succeeds the Vm it built is the one modelled from then
\* on, its managers constructed from the config and its Device Manager still
\* without devices; when it fails there is no new Vm
NewFromSnapshot ==
    /\ pc = "idle"
    /\ ret.op = "snapshot"
    /\ ret.res.kind = "Ok"
    /\ \E f \in NewFromSnapshotFails :
         LET o == new_from_snapshot(ret.res, f) IN
         /\ ret' = [op |-> "new_from_snapshot", arg |-> ret.res, res |-> o.res]
         /\ calls' = <<>>
         /\ IF o.res.kind = "Ok"
            THEN /\ state' = o.state
                 /\ config' = o.config
                 /\ saved_clock' = o.saved_clock
                 /\ signals' = o.signals
                 /\ threads' = o.threads
                 /\ cpu_manager' = [vcpus |-> "none", paused |-> FALSE, restored |-> FALSE]
                 /\ device_manager' = [paused |-> FALSE, restored |-> FALSE]
                 /\ memory_manager' = [restored |-> FALSE]
                 /\ vm_clock' = None
                 /\ term' = "canon"
                 /\ dm_devices' = {}
                 /\ cpu_vcpus' = o.config.cpus.boot_vcpus
                 /\ mm_size' = o.config.memory.size
                 /\ mm_balloon' = o.config.memory.balloon_size
                 /\ UNCHANGED <<on_tty, console_input, pc, lock_vars, host_vars>>
            ELSE UNCHANGED <<lifecycle_vars, reconfig_vars, lock_vars, host_vars>>

\* restore called on the Vm new_from_snapshot built, with the same manifest
RestoreSnapshot ==
    /\ pc = "idle"
    /\ ret.op = "new_from_snapshot"
    /\ ret.res = Ok
    /\ \E f \in RestoreFails :
         Apply("restore", ret.arg,
               restore_outcome({ret.arg.snapshots[i] : i \in 1..Len(ret.arg.snapshots)}, f))

NextRoundTrip ==
    \/ AddDisk
    \/ AddVsock
    \/ Pause
    \/ SnapshotCall
    \/ NewFromSnapshot
    \/ RestoreSnapshot

NextHotplug ==
    \/ AddDevice
    \/ AddDisk
    \/ AddFs
    \/ AddPmem
    \/ AddNet
    \/ AddVsock
    \/ RemoveDevice

SpecResize == InitConfigured /\ [][Resize]_vars

\* hot-plug runs: resize is not called, so one memory hot-plug method
InitHotplug == InitConfigured /\ config.memory.hotplug_method = "Acpi"

SpecHotplug == InitHotplug /\ [][NextHotplug]_vars

\* loader runs: a Vm with any configured command line
InitLoader ==
    /\ InitLifecycle
    /\ saved_clock = None
    /\ ~on_tty
    /\ ~console_input
    /\ \E args \in CmdlineArgs :
         config = [CHOOSE c \in VmConfigs : c.memory.hotplug_method = "Acpi"
                      EXCEPT !.cmdline.args = args]
    /\ dm_devices = {}
    /\ cpu_vcpus = config.cpus.boot_vcpus
    /\ mm_size = config.memory.size
    /\ mm_balloon = config.memory.balloon_size
    /\ InitCall
    /\ InitHost

\* the kernel is loaded and the system configured as boot does
SpecLoader == InitLoader /\ [][NextLoader]_vars

\* construction applies config.numa to the Memory Manager's nodes
SpecNuma == InitHotplug /\ [][UpdateNuma]_vars

----------------------------------------------------------------------------
(* Locks.  Each method is the sequence of what it does to the locks of the *)
(* Vm, in program order on the path that takes every branch: it acquires   *)
(* or releases a lock (a MutexGuard temporary lives to the end of its      *)
(* statement, the guard of an `if let` scrutinee to the end of the block), *)
(* calls a collaborator, checks the transition, or commits the new state.  *)

Acquire(lock) == [k |-> "acquire", x |-> lock]
Release(lock) == [k |-> "release", x |-> lock]
Effect(call) == [k |-> "effect", x |-> call]
Check(new_state) == [k |-> "check", x |-> new_state]
Commit(new_state) == [k |-> "commit", x |-> new_state]
\* lock().unwrap().call(): the guard lives for the one statement
Locked(lock, call) == <<Acquire(lock), Effect(call), Release(lock)>>
\* a lock taken and dropped with no collaborator called under it
Touched(lock) == <<Acquire(lock), Release(lock)>>
\* a field of the VmConfig is written
Mirror(field) == [k |-> "mirror", x |-> "config." \o field]
\* config.lock().unwrap().field = value: the guard lives for the one statement
Mirrored(field) == <<Acquire("config"), Mirror(field), Release("config")>>

trace_new_from_memory_manager ==
    Locked("config", "config.validate")
    \o <<Effect("DeviceManager::new")>>
    \o Locked("config", "CpuManager::new")
    \o Locked("config", "File::open(kernel)")
    \o Locked("config", "File::open(initramfs)")
    \o <<Acquire("config"), Acquire("memory"), Effect("memory_manager.numa_nodes_mut"),
         Release("memory"), Release("config")>>

trace_new ==
    Locked("config", "MemoryManager::new")
    \o <<Acquire("config"), Acquire("memory"), Effect("memory_manager.setup_sgx"),
         Release("memory"), Release("config")>>
    \o trace_new_from_memory_manager
    \o Locked("devices", "device_manager.create_devices")

trace_new_from_snapshot ==
    <<Effect("get_vm_snapshot"), Effect("vm.set_state")>>
    \o Locked("config", "MemoryManager::new_from_snapshot")
    \o trace_new_from_memory_manager

trace_get_cmdline ==
    Locked("config", "cmdline.insert_str")
    \o Locked("devices", "device_manager.cmdline_additions")

trace_load_kernel ==
    trace_get_cmdline
    \o Touched("memory")
    \o <<Effect("Elf::load"), Effect("load_cmdline")>>

trace_configure_system ==
    trace_get_cmdline
    \o Touched("memory")
    \o <<Effect("load_initramfs")>>
    \o Locked("cpus", "cpu_manager.boot_vcpus")
    \o <<Effect("create_acpi_tables")>>
    \o Locked("memory", "memory_manager.sgx_epc_region")
    \o <<Effect("arch::configure_system")>>

\* the console block boot and restore share
trace_console ==
    Locked("devices", "console.input_enabled")
    \o Locked("devices", "console.clone")
    \o <<Effect("Signals::new"), Effect("thread.spawn"), Effect("set_raw_mode")>>

\* boot in a state other than Paused (in Paused it is resume)
trace_boot ==
    Touched("state.read")
    \o <<Check("Running")>>
    \o trace_load_kernel
    \o Locked("cpus", "cpu_manager.create_boot_vcpus")
    \o trace_configure_system
    \o Locked("cpus", "cpu_manager.start_boot_vcpus")
    \o trace_console
    \o <<Acquire("state.write"), Commit("Running"), Release("state.write")>>

trace_pause ==
    <<Acquire("state.write"), Check("Paused"), Effect("vm.get_clock")>>
    \o Locked("cpus", "cpu_manager.pause")
    \o Locked("devices", "device_manager.pause")
    \o <<Commit("Paused"), Release("state.write")>>

trace_resume ==
    <<Acquire("state.write"), Check("Running")>>
    \o Locked("cpus", "cpu_manager.resume")
    \o <<Effect("vm.set_clock")>>
    \o Locked("devices", "device_manager.resume")
    \o <<Commit("Running"), Release("state.write")>>

trace_shutdown ==
    <<Acquire("state.write"), Check("Shutdown"), Effect("set_canon_mode"),
      Effect("signals.close")>>
    \o Locked("devices", "device_manager.resume")
    \o Locked("cpus", "cpu_manager.shutdown")
    \o <<Effect("thread.join"), Commit("Shutdown"), Release("state.write")>>

trace_resize ==
    Locked("cpus", "cpu_manager.resize")
    \o Locked("devices", CPU_DEVICES_CHANGED)
    \o Mirrored("cpus.boot_vcpus")
    \o Locked("memory", "memory_manager.resize")
    \o Locked("devices", "device_manager.update_memory")
    \o <<Acquire("config")>>
    \o Locked("devices", MEMORY_DEVICES_CHANGED)
    \o <<Release("config")>>
    \o Mirrored("memory.size")
    \o <<Acquire("memory"), Effect("memory_manager.balloon_resize"),
         Acquire("config"), Mirror("memory.balloon_size"), Release("config"),
         Release("memory")>>

\* add_device, add_disk, add_fs, add_pmem, add_net
trace_add ==
    Locked("devices", "device_manager.add")
    \o Mirrored("devices")
    \o Locked("devices", PCI_DEVICES_CHANGED)

trace_add_vsock == Touched("config") \o trace_add

trace_remove_device ==
    Locked("devices", "device_manager.remove_device")
    \o Mirrored("devices")
    \o Locked("devices", PCI_DEVICES_CHANGED)

trace_snapshot ==
    Touched("state.read")
    \o <<Effect("vm.state")>>
    \o Locked("config", "serde_json::to_vec")
    \o Locked("cpus", "cpu_manager.snapshot")
    \o Locked("memory", "memory_manager.snapshot")
    \o Locked("devices", "device_manager.snapshot")

trace_restore ==
    Touched("state.read")
    \o <<Check("Paused")>>
    \o Locked("memory", "memory_manager.restore")
    \o Locked("devices", "device_manager.restore")
    \o Locked("cpus", "cpu_manager.restore")
    \o trace_console
    \o <<Acquire("state.write"), Commit("Paused"), Release("state.write")>>

trace_send ==
    <<Effect("url_to_path"), Effect("OpenOptions::open"), Effect("serde_json::to_vec"),
      Effect("File::write")>>
    \o Locked("memory", "memory_manager.send")

Methods ==
    {"new", "new_from_snapshot", "boot", "pause", "resume", "shutdown", "resize",
     "add", "add_vsock", "remove_device", "snapshot", "restore", "send"}

Trace(method) ==
    CASE method = "new" -> trace_new
      [] method = "new_from_snapshot" -> trace_new_from_snapshot
      [] method = "boot" -> trace_boot
      [] method = "pause" -> trace_pause
      [] method = "resume" -> trace_resume
      [] method = "shutdown" -> trace_shutdown
      [] method = "resize" -> trace_resize
      [] method = "add" -> trace_add
      [] method = "add_vsock" -> trace_add_vsock
      [] method = "remove_device" -> trace_remove_device
      [] method = "snapshot" -> trace_snapshot
      [] method = "restore" -> trace_restore
      [] method = "send" -> trace_send

Idle == [method |-> "none", pos |-> 0]

\* what the method does next
Event == Trace(running.method)[running.pos]

\* the method returns: every guard it holds is dropped
Leave(op, res) ==
    /\ running' = Idle
    /\ held' = <<>>
    /\ ret' = [op |-> op, arg |-> <<>>, res |-> res]

Advance == running' = [running EXCEPT !.pos = @ + 1]

\* a method is called; a constructor builds the Vm that is modelled from then
\* on, and snapshot outside Paused returns its error before it takes a lock
Enter ==
    /\ running = Idle
    /\ \E method \in Methods :
         /\ method = "boot" => state # "Paused"
         /\ method = "snapshot" => state = "Paused"
         /\ running' = [method |-> method, pos |-> 1]
         /\ state' = IF method \in {"new", "new_from_snapshot"} THEN "Created" ELSE state
    /\ calls' = <<>>
    /\ UNCHANGED <<cpu_manager, device_manager, memory_manager, saved_clock, vm_clock,
                   term, on_tty, console_input, signals, threads, pc, reconfig_vars,
                   ret, held, host_vars>>

InMethod == running # Idle /\ running.pos <= Len(Trace(running.method))

TakeLock ==
    /\ InMethod
    /\ Event.k = "acquire"
    /\ held' = Append(held, IF Event.x \in {"state.read", "state.write"}
                            THEN "state" ELSE Event.x)
    /\ Advance
    /\ UNCHANGED <<lifecycle_vars, reconfig_vars, calls, ret, host_vars>>

DropLock ==
    /\ InMethod
    /\ Event.k = "release"
    /\ held' = SelectSeq(held, LAMBDA l : l # (IF Event.x \in {"state.read", "state.write"}
                                              THEN "state" ELSE Event.x))
    /\ Advance
    /\ UNCHANGED <<lifecycle_vars, reconfig_vars, calls, ret, host_vars>>

\* a collaborator is called and returns
CallCollaborator ==
    /\ InMethod
    /\ Event.k = "effect"
    /\ calls' = Append(calls, [call |-> Event.x, r |-> "ok"])
    /\ Advance
    /\ UNCHANGED <<lifecycle_vars, reconfig_vars, ret, held, host_vars>>

\* the VmConfig is written: the write cannot fail
WriteConfig ==
    /\ InMethod
    /\ Event.k = "mirror"
    /\ calls' = Append(calls, [call |-> Event.x, r |-> "ok"])
    /\ Advance
    /\ UNCHANGED <<lifecycle_vars, reconfig_vars, ret, held, host_vars>>

\* a collaborator is called and fails: the method returns the error
CallFails ==
    /\ InMethod
    /\ Event.k = "effect"
    /\ calls' = Append(calls, [call |-> Event.x, r |-> "err"])
    /\ Leave(running.method, Err(Event.x))
    /\ UNCHANGED <<lifecycle_vars, reconfig_vars, host_vars>>

\* valid_transition: the method goes on, or returns its error
CheckTransition ==
    /\ InMethod
    /\ Event.k = "check"
    /\ LET chk == valid_transition(state, Event.x) IN
       IF chk.kind = "Ok"
       THEN Advance /\ UNCHANGED <<ret, held>>
       ELSE Leave(running.method, chk)
    /\ UNCHANGED <<lifecycle_vars, reconfig_vars, calls, host_vars>>

\* *state = new_state
CommitState ==
    /\ InMethod
    /\ Event.k = "commit"
    /\ state' = Event.x
    /\ Advance
    /\ UNCHANGED <<cpu_manager, device_manager, memory_manager, saved_clock, vm_clock,
                   term, on_tty, console_input, signals, threads, pc, reconfig_vars,
                   calls, ret, held, host_vars>>

\* the method reaches its end and returns Ok
Finish ==
    /\ running # Idle
    /\ running.pos > Len(Trace(running.method))
    /\ Leave(running.method, Ok)
    /\ UNCHANGED <<lifecycle_vars, reconfig_vars, calls, host_vars>>

NextLocks ==
    \/ Enter
    \/ TakeLock
    \/ DropLock
    \/ CallCollaborator
    \/ WriteConfig
    \/ CallFails
    \/ CheckTransition
    \/ CommitState
    \/ Finish

\* the methods of a Vm followed lock by lock
SpecLocks == InitHotplug /\ [][NextLocks]_vars

----------------------------------------------------------------------------
(* Transportable::send.  A destination directory is modelled by the file   *)
(* named VM_SNAPSHOT_FILE in it (absent, or its bytes) and by whether the  *)
(* Memory Manager has persisted its content there.                         *)

\* destination_url as Url::parse sees it: rejected, or a scheme and a path
DestinationUrls ==
    {[parsed |-> FALSE, scheme |-> "", path |-> ""]}
    \cup {[parsed |-> TRUE, scheme |-> sc, path |-> dir] :
             sc \in {"file", "tcp"}, dir \in Dirs}

\* the snapshots send is given: with and without the Memory Manager's child
SendSnapshots ==
    {[id |-> VM_SNAPSHOT_ID, snapshots |-> ch] :
        ch \in {<<"cpu-manager", "memory-manager", "device-manager">>,
                <<"cpu-manager", "device-manager">>}}

\* what a file left by someone else holds
Stale == <<"stale">>

\* serde_json::to_vec(snapshot): the manifest, its id then its children
snapshot_to_vec(snapshot) == <<"{", snapshot.id>> \o snapshot.snapshots \o <<"}">>

\* snapshot.snapshots.get(id) finds a child
HasChild(snapshot, id) == \E i \in 1..Len(snapshot.snapshots) : snapshot.snapshots[i] = id

Logged(log, name, r) == Append(log, [call |-> name, r |-> r])

\* what send does once the snapshot file is open and empty
send_write(fs, dir, snapshot, fail, log) ==
    LET created == [fs EXCEPT ![dir].snapshot_file = Some(<<>>)]
        written == [fs EXCEPT ![dir].snapshot_file = Some(snapshot_to_vec(snapshot))] IN
    IF fail = "serde_json::to_vec"
    THEN [res |-> Err("MigrateSend"), files |-> created,
          calls |-> Logged(log, "serde_json::to_vec", "err")]
    ELSE LET log1 == Logged(log, "serde_json::to_vec", "ok") IN
    IF fail = "File::write"
    THEN [res |-> Err("MigrateSend"), files |-> created,
          calls |-> Logged(log1, "File::write", "err")]
    ELSE LET log2 == Logged(log1, "File::write", "ok") IN
    IF ~HasChild(snapshot, "memory-manager")
    THEN [res |-> Err("Restore"), files |-> written, calls |-> log2]
    ELSE IF fail = "memory_manager.send"
    THEN [res |-> Err("memory_manager.send"), files |-> written,
          calls |-> Logged(log2, "memory_manager.send", "err")]
    ELSE [res |-> Ok, files |-> [written EXCEPT ![dir].memory = TRUE],
          calls |-> Logged(log2, "memory_manager.send", "ok")]

\* Vm::send opening the snapshot file with create(true): an existing file is reused
send_mut(fs, snapshot, destination_url, fail) ==
    IF ~destination_url.parsed \/ destination_url.scheme # "file"
    THEN [res |-> Err("MigrateSend"), files |-> fs, calls |-> <<>>]
    ELSE IF fail = "url_to_path"
    THEN [res |-> Err("url_to_path"), files |-> fs,
          calls |-> Logged(<<>>, "url_to_path", "err")]
    ELSE LET log == Logged(<<>>, "url_to_path", "ok") IN
    IF fail = "OpenOptions::open"
    THEN [res |-> Err("MigrateSend"), files |-> fs,
          calls |-> Logged(log, "OpenOptions::open", "err")]
    ELSE send_write(fs, destination_url.path, snapshot, fail,
                    Logged(log, "OpenOptions::open", "ok"))

\* Vm::send.  create_new(true) opens the file only if it does not exist yet; the
\* open also fails for reasons of the host (fail = "OpenOptions::open").
send(fs, snapshot, destination_url, fail) ==
    IF ~destination_url.parsed
    THEN [res |-> Err("MigrateSend"), files |-> fs, calls |-> <<>>]
    ELSE IF destination_url.scheme # "file"
    THEN [res |-> Err("MigrateSend"), files |-> fs, calls |-> <<>>]
    ELSE IF fail = "url_to_path"
    THEN [res |-> Err("url_to_path"), files |-> fs,
          calls |-> Logged(<<>>, "url_to_path", "err")]
    ELSE LET log == Logged(<<>>, "url_to_path", "ok") IN
    IF fs[destination_url.path].snapshot_file.some \/ fail = "OpenOptions::open"
    THEN [res |-> Err("MigrateSend"), files |-> fs,
          calls |-> Logged(log, "OpenOptions::open", "err")]
    ELSE send_write(fs, destination_url.path, snapshot, fail,
                    Logged(log, "OpenOptions::open", "ok"))

SendFails == {"none", "url_to_path", "OpenOptions::open", "serde_json::to_vec",
              "File::write", "memory_manager.send"}

Send ==
    \E snapshot \in SendSnapshots : \E destination_url \in DestinationUrls :
    \E fail \in SendFails :
        LET o == send(files, snapshot, destination_url, fail) IN
        /\ files' = o.files
        /\ calls' = o.calls
        /\ ret' = [op |-> "send", arg |-> <<snapshot, destination_url>>, res |-> o.res]
        /\ UNCHANGED <<lifecycle_vars, reconfig_vars, lock_vars, process>>

\* send runs: each destination directory is empty or holds someone else's file
InitSend ==
    /\ InitLifecycle
    /\ saved_clock = None
    /\ ~on_tty
    /\ ~console_input
    /\ InitReconfig
    /\ config = CHOOSE c \in VmConfigs : c.memory.hotplug_method = "Acpi"
    /\ InitCall
    /\ files \in [Dirs -> {EmptyDir, [EmptyDir EXCEPT !.snapshot_file = Some(Stale)]}]
    /\ process = [exit |-> None, console_size |-> None]

\* snapshots are sent to destinations, again and again
SpecSend == InitSend /\ [][Send]_vars

----------------------------------------------------------------------------
(* Vm::os_signal_handler, the body of the thread boot and restore spawn.   *)
(* One action is one turn of its loop: the signal it takes from            *)
(* signals.forever() and what it does with it.                             *)

\* the signals the Signals of boot and restore is registered for
HandledSignals == {"SIGWINCH", "SIGINT", "SIGTERM"}

\* what get_win_size() returns: columns and rows
WinSizes == (1..MaxWin) \X (1..MaxWin)

\* (signal != SIGTERM) as i32 with the comparison turned round
exit_code_mut(signal) == IF signal = "SIGTERM" THEN 1 ELSE 0

\* (signal != SIGTERM) as i32
exit_code(signal) == IF signal # "SIGTERM" THEN 1 ELSE 0

\* one turn of the loop of os_signal_handler
os_signal_handler(signal, win_size, fail) ==
    LET s == [term |-> term, process |-> process, calls |-> <<>>, res |-> Ok] IN
    IF signal = "SIGWINCH"
    THEN [s EXCEPT !.process.console_size = Some(win_size),
                   !.calls = <<[call |-> "get_win_size", r |-> "ok"],
                               [call |-> "console.update_console_size", r |-> "ok"]>>]
    ELSE IF signal \in {"SIGTERM", "SIGINT"}
    THEN LET s1 == IF on_tty
                   THEN [s EXCEPT !.calls = Logged(@, "set_canon_mode",
                                       IF fail = "set_canon_mode" THEN "err" ELSE "ok")]
                   ELSE s IN
         \* expect() on the failed call panics: the thread ends, the process goes on
         IF on_tty /\ fail = "set_canon_mode" THEN [s1 EXCEPT !.res = Err("panic")]
         ELSE [s1 EXCEPT !.term = IF on_tty THEN "canon" ELSE @,
                         !.process.exit = Some(exit_code(signal)),
                         !.calls = Logged(@, "process::exit", "ok")]
    ELSE s

\* the process has not exited
Alive == ~process.exit.some

\* a handler thread whose Signals is open takes a signal
OsSignalHandler ==
    /\ Alive
    /\ \E i \in 1..Len(threads) : threads[i] = "open"
    /\ \E signal \in HandledSignals : \E win_size \in WinSizes :
       \E fail \in {"none", "set_canon_mode"} :
           LET o == os_signal_handler(signal, win_size, fail) IN
           /\ term' = o.term
           /\ process' = o.process
           /\ calls' = o.calls
           /\ ret' = [op |-> "os_signal_handler", arg |-> <<signal, win_size>>,
                      res |-> o.res]
    /\ UNCHANGED <<state, cpu_manager, device_manager, memory_manager, saved_clock,
                   vm_clock, on_tty, console_input, signals, threads, pc,
                   reconfig_vars, lock_vars, files>>

BootAlive == Alive /\ Boot
ShutdownAlive == Alive /\ Shutdown

NextSignals ==
    \/ BootAlive
    \/ ShutdownAlive
    \/ OsSignalHandler

\* a Vm is booted and shut down while signals reach its handler threads
SpecSignals == Init /\ [][NextSignals]_vars

\* a Vm is reconfigured, paused, snapshotted, and built again from the snapshot
SpecRoundTrip == InitHotplug /\ [][NextRoundTrip]_vars

----------------------------------------------------------------------------
(* Properties of the lifecycle state machine.                              *)

\* the table of legal transitions of the specification, section 3
LegalTransitions ==
    {<<"Created", "Running">>, <<"Created", "Paused">>,
     <<"Running", "Paused">>, <<"Running", "Shutdown">>,
     <<"Paused", "Running">>, <<"Paused", "Shutdown">>,
     <<"Shutdown", "Running">>}

\* C1: valid_transition(s, t) succeeds iff (s, t) is in the table of legal
\* transitions, and fails with InvalidStateTransition(s, t) on every other pair.
C1_ValidTransitionTable ==
    ret.op = "valid_transition" =>
        ret.res = IF ret.arg \in LegalTransitions THEN Ok
                  ELSE InvalidStateTransition(ret.arg[1], ret.arg[2])

C1_Witness ==
    /\ ret.op = "valid_transition"
    /\ ret.arg = <<"Shutdown", "Paused">>
    /\ ret.res = InvalidStateTransition("Shutdown", "Paused")

\* C2: the state starts as Created and every change of the stored state, by
\* whatever method and however the method ends, is an edge of the table: Created
\* is never re-entered and Shutdown is only followed by Running.
C2_StateFollowsTable ==
    /\ state = "Created"
    /\ [][state' # state => <<state, state'>> \in LegalTransitions]_vars

C2_Witness ==
    /\ state = "Shutdown"
    /\ ret.op = "shutdown"
    /\ ret.res = Ok

\* the state a lifecycle method asks to enter
Target(op) ==
    CASE op = "boot" -> "Running"
      [] op = "resume" -> "Running"
      [] op = "pause" -> "Paused"
      [] op = "restore" -> "Paused"
      [] op = "shutdown" -> "Shutdown"
      [] op = "snapshot" -> "Paused"

\* whether the method is called in a state it may not be called in: snapshot
\* needs Paused, boot in Paused is a resume, the others need a legal edge
Illegal(op) ==
    IF op = "snapshot" THEN state # "Paused"
    ELSE <<state, Target(op)>> \notin LegalTransitions

ErrorCause(res) == IF "cause" \in DOMAIN res THEN res.cause ELSE res

\* C3: a lifecycle method called where its transition is illegal returns an
\* error (InvalidStateTransition(from, to), for snapshot the Snapshot error),
\* calls no collaborator and leaves the state, the subsystems, the saved clock,
\* the terminal mode, the signal iterator and the thread list as they were.
C3_IllegalCallHasNoEffect ==
    [][(ret'.op \in {"boot", "pause", "resume", "shutdown", "snapshot", "restore"}
        /\ Illegal(ret'.op))
       => /\ ret'.res.kind # "Ok"
          /\ IF ret'.op = "snapshot" THEN ret'.res.kind = "Snapshot"
             ELSE ErrorCause(ret'.res) = InvalidStateTransition(state, Target(ret'.op))
          /\ calls' = <<>>
          /\ UNCHANGED lifecycle_vars]_vars

C3_Witness ==
    /\ ret.op = "shutdown"
    /\ ret.res = InvalidStateTransition("Created", "Shutdown")
    /\ state = "Created"

\* C4: snapshot succeeds only in Paused; in Created, Running or Shutdown it
\* returns the Snapshot error "Trying to snapshot while VM is running", asks no
\* subsystem for a snapshot and leaves the state as it was.
C4_SnapshotOnlyWhenPaused ==
    /\ [](ret.op = "snapshot" /\ ret.res.kind = "Ok" => state = "Paused")
    /\ [][(ret'.op = "snapshot" /\ state # "Paused")
          => /\ ret'.res = Wrap("Snapshot", Err("Trying to snapshot while VM is running"))
             /\ calls' = <<>>
             /\ state' = state]_vars

C4_Witness ==
    /\ ret.op = "snapshot"
    /\ ret.res.kind = "Snapshot"
    /\ calls = <<>>
    /\ state = "Running"

\* C5: pause called in Paused fails with the Pause error that carries
\* InvalidStateTransition(Paused, Paused), pauses neither the CPU Manager nor
\* the Device Manager again and leaves the state Paused.
C5_SecondPauseFails ==
    [][(ret'.op = "pause" /\ state = "Paused")
       => /\ ret'.res = Wrap("Pause", InvalidStateTransition("Paused", "Paused"))
          /\ calls' = <<>>
          /\ cpu_manager' = cpu_manager
          /\ device_manager' = device_manager
          /\ saved_clock' = saved_clock
          /\ state' = "Paused"]_vars

C5_Witness ==
    /\ ret.op = "pause"
    /\ ret.res = Wrap("Pause", InvalidStateTransition("Paused", "Paused"))
    /\ state = "Paused"
    /\ cpu_manager.paused
    /\ device_manager.paused

----------------------------------------------------------------------------
(* Properties of the hot-plug coordinator.                                 *)

SeqAddOps == {"add_device", "add_disk", "add_fs", "add_pmem", "add_net"}
AddOps == SeqAddOps \cup {"add_vsock"}

\* the VmConfig sequence a hot-plug add extends
AddField(op) ==
    CASE op = "add_device" -> "devices"
      [] op = "add_disk" -> "disks"
      [] op = "add_fs" -> "fs"
      [] op = "add_pmem" -> "pmem"
      [] op = "add_net" -> "net"

\* how many PCI_DEVICES_CHANGED notifications the last method sent
Notifications ==
    Cardinality({i \in 1..Len(calls) : calls[i].call = PCI_DEVICES_CHANGED})

\* how many entries of a sequence equal cfg
Occurrences(sequence, cfg) ==
    Cardinality({i \in 1..Len(sequence) : sequence[i] = cfg})

\* C6: after a hot-plug add_X(cfg) that succeeded, cfg is the last entry of its
\* VmConfig sequence and appears in it exactly once (for vsock, cfg is the
\* vsock), and the call sent exactly one PCI_DEVICES_CHANGED notification.
C6_AddedExactlyOnce ==
    (ret.op \in AddOps /\ ret.res = Ok) =>
        /\ Notifications = 1
        /\ IF ret.op = "add_vsock"
           THEN config.vsock.some /\ (ret.arg.id.some => config.vsock.v = ret.arg)
           ELSE LET sequence == config[AddField(ret.op)]
                    cfg == sequence.v[Len(sequence.v)] IN
                /\ sequence.some
                /\ ret.arg.id.some => cfg = ret.arg
                /\ Occurrences(sequence.v, cfg) = 1

\* C7: a hot-plug add whose Device Manager add_* call fails returns
\* DeviceManager(...), leaves the VmConfig as it was and sends no hot-plug
\* notification.
C7_FailedAddChangesNothing ==
    [][(/\ ret'.op \in AddOps
        /\ Len(calls') >= 1
        /\ calls'[1].r = "err")
       => /\ ret'.res.kind = "DeviceManager"
          /\ config' = config
          /\ Len(calls') = 1
          /\ calls'[1].call # PCI_DEVICES_CHANGED]_vars

C7_Witness ==
    /\ ret.op = "add_pmem"
    /\ ret.res = Wrap("DeviceManager", Err("add_pmem"))
    /\ calls = <<[call |-> "device_manager.add_pmem", r |-> "err"]>>
    /\ config.pmem = None

\* C8: add_vsock called while VmConfig.vsock is present fails with
\* TooManyVsockDevices, calls neither the Device Manager's add_vsock nor its
\* notification, and leaves VmConfig.vsock (and the rest of the VmConfig) as it
\* was, so the VmConfig never holds a second vsock.
C8_SecondVsockRefused ==
    [][(ret'.op = "add_vsock" /\ config.vsock.some)
       => /\ ret'.res = Err("TooManyVsockDevices")
          /\ calls' = <<>>
          /\ config' = config
          /\ dm_devices' = dm_devices]_vars

C8_Witness ==
    /\ ret.op = "add_vsock"
    /\ ret.res = Err("TooManyVsockDevices")
    /\ config.vsock.some
    /\ config.vsock.v.id # ret.arg.id

\* C9: after a remove_device(id) that succeeded, none of the VmConfig
\* sequences devices, disks, net, pmem holds an entry with that id, and the
\* VmConfig has no vsock with that id.
C9_RemovedFromConfig ==
    (ret.op = "remove_device" /\ ret.res = Ok) =>
        /\ \A field \in {"devices", "disks", "net", "pmem"} :
              config[field].some =>
                  \A i \in 1..Len(config[field].v) :
                      config[field].v[i].id # Some(ret.arg)
        /\ config.vsock.some => config.vsock.v.id # Some(ret.arg)

C9_Witness ==
    /\ ret.op = "remove_device"
    /\ ret.res = Ok
    /\ config.disks = Some(<<>>)
    /\ ret.arg \notin dm_devices

\* the ids of the devices the VmConfig lists
ConfigIds ==
    LET Ids(sequence) ==
            IF sequence.some
            THEN {sequence.v[i].id.v : i \in {j \in 1..Len(sequence.v) : sequence.v[j].id.some}}
            ELSE {} IN
    UNION {Ids(config[field]) : field \in SeqFields}
        \cup (IF config.vsock.some /\ config.vsock.v.id.some
              THEN {config.vsock.v.id.v} ELSE {})

\* C10: whenever a method has returned, the VmConfig lists exactly the devices
\* the Device Manager holds, the vCPU count the CPU Manager runs and the memory
\* size the Memory Manager provides.
C10_ConfigMirrorsSubsystems ==
    /\ ConfigIds = dm_devices
    /\ config.cpus.boot_vcpus = cpu_vcpus
    /\ config.memory.size = mm_size

----------------------------------------------------------------------------
(* Properties of the resize coordinator.                                   *)

\* whether the last method logged a call of this name
Called(name) == \E i \in 1..Len(calls) : calls[i].call = name

\* whether the last method logged a call of this name that failed
CallFailed(name) == \E i \in 1..Len(calls) : calls[i].call = name /\ calls[i].r = "err"

----------------------------------------------------------------------------
(* Properties of snapshot and restore.                                     *)

\* whether a value returned by snapshot is a manifest
IsManifest(res) == "snapshots" \in DOMAIN res

\* C13: a snapshot that succeeds returns a manifest with id "vm", the three
\* child snapshots cpu-manager, memory-manager, device-manager collected in
\* that order, and the one data section "vm-section" holding the config, the
\* saved clock and the hypervisor VM state; a snapshot one of whose child
\* snapshots failed returns an error and no manifest.
C13_SnapshotManifest ==
    ret.op = "snapshot" =>
        /\ ret.res.kind = "Ok" =>
              /\ ret.res.id = "vm"
              /\ ret.res.snapshots = <<"cpu-manager", "memory-manager", "device-manager">>
              /\ Len(ret.res.snapshot_data) = 1
              /\ ret.res.snapshot_data[1].id = "vm-section"
              /\ LET section == ret.res.snapshot_data[1].snapshot IN
                 /\ [i \in 1..Len(section) |-> section[i].key]
                        = <<"config", "clock", "state">>
                 /\ Member(section, "config") = config
                 /\ Member(section, "clock") = saved_clock
                 /\ Member(section, "state") = Some("vm_state")
        /\ (\E i \in 1..Len(calls) : calls[i].r = "err") =>
              ret.res.kind # "Ok" /\ ~IsManifest(ret.res)

C13_Witness ==
    /\ ret.op = "snapshot"
    /\ ret.res.kind = "Ok"
    /\ Len(ret.res.snapshots) = 3
    /\ saved_clock.some

\* a child snapshot failed and no manifest was returned
C13_WitnessFailure ==
    /\ ret.op = "snapshot"
    /\ CallFailed("memory_manager.snapshot")
    /\ ~IsManifest(ret.res)

----------------------------------------------------------------------------
(* Properties of the boot loader driver.                                   *)

RECURSIVE Joined_with_spaces(_)
\* the strings of a list separated by single spaces
Joined_with_spaces(strings) ==
    IF strings = <<>> THEN <<>>
    ELSE IF Len(strings) = 1 THEN strings[1]
    ELSE strings[1] \o <<" ">> \o Joined_with_spaces(Tail(strings))

CmdlineComposed == ret.res.kind # "CmdLineInsertStr"

\* what the loaders left in entry_addr in the last load_kernel
LoadedImage == IF ret.arg.elf.kind = "Ok" THEN ret.arg.elf ELSE ret.arg.bz

\* C15: load_kernel calls the ELF loader first and the bzImage loader only when
\* the ELF loader failed with InvalidElfMagicNumber; any other ELF error is
\* returned as KernelLoad without a bzImage attempt; an entry point returned
\* is LinuxBoot at kernel_load + 0x200 with the setup header when the loader
\* found one, else PvhBoot at the PVH entry when a PVH note is present, else
\* LinuxBoot at kernel_load, both without header.
C15_LoadKernel ==
    (ret.op = "load_kernel" /\ CmdlineComposed) =>
        /\ calls[1].call = "Elf::load"
        /\ Called("BzImage::load") <=> ret.arg.elf = Err("InvalidElfMagicNumber")
        /\ (ret.arg.elf.kind # "Ok" /\ ret.arg.elf # Err("InvalidElfMagicNumber"))
              => ret.res = Wrap("KernelLoad", ret.arg.elf)
        /\ ret.res.kind = "Ok" =>
              LET e == ret.res.entry_point IN
              IF LoadedImage.setup_header.some
              THEN /\ e.protocol = "LinuxBoot"
                   /\ e.entry_addr = LoadedImage.kernel_load + 512
                   /\ e.setup_header = LoadedImage.setup_header
              ELSE IF LoadedImage.pvh_boot_cap.present
              THEN /\ e.protocol = "PvhBoot"
                   /\ e.entry_addr = LoadedImage.pvh_boot_cap.addr
                   /\ e.setup_header = None
              ELSE /\ e.protocol = "LinuxBoot"
                   /\ e.entry_addr = LoadedImage.kernel_load
                   /\ e.setup_header = None

\* the bzImage loader was tried after an invalid ELF magic number and found a
\* setup header
C15_Witness ==
    /\ ret.op = "load_kernel"
    /\ ret.res.kind = "Ok"
    /\ ret.arg.elf = Err("InvalidElfMagicNumber")
    /\ Called("BzImage::load")
    /\ ret.res.entry_point.protocol = "LinuxBoot"
    /\ ret.res.entry_point.setup_header.some
    /\ ret.res.entry_point.entry_addr = 256 + 512

----------------------------------------------------------------------------
(* Properties of update_numa.                                              *)

\* whether a NumaConfig names an existing node and only existing destinations
ValidNumaConfig(cfg, existing_nodes) ==
    /\ cfg.id \in existing_nodes
    /\ cfg.distances.some =>
          \A i \in 1..Len(cfg.distances.v) :
              cfg.distances.v[i].destination \in existing_nodes

\* C16: update_numa succeeds iff every NumaConfig names an existing node and
\* only existing nodes as distance destinations, it fails with
\* InvalidNumaConfig otherwise, and after a success every destination in a
\* node's distance map is an existing node.
C16_UpdateNuma ==
    ret.op = "update_numa" =>
        LET valid == \A i \in 1..Len(ret.arg.configs) :
                         ValidNumaConfig(ret.arg.configs[i], ret.arg.existing_nodes) IN
        /\ ret.res.kind = "Ok" <=> valid
        /\ ~valid => ret.res.kind = "InvalidNumaConfig"
        /\ ret.res.kind = "Ok" =>
              \A n \in DOMAIN ret.res.numa_nodes :
                  \A e \in ret.res.numa_nodes[n].distances :
                      e.destination \in ret.arg.existing_nodes

\* two nodes, each given a distance to the other
C16_Witness ==
    /\ ret.op = "update_numa"
    /\ ret.res.kind = "Ok"
    /\ ret.arg.existing_nodes = {0, 1}
    /\ ret.res.numa_nodes[0].distances = {[destination |-> 1, distance |-> 10]}
    /\ ret.res.numa_nodes[1].distances = {[destination |-> 0, distance |-> 10]}

----------------------------------------------------------------------------
(* Properties of the locking.                                              *)

\* the place of a lock in the order state, config, memory, devices, cpus
Rank(lock) ==
    CASE lock = "state" -> 0
      [] lock = "config" -> 1
      [] lock = "memory" -> 2
      [] lock = "devices" -> 3
      [] lock = "cpus" -> 4

\* C17: the locks a method holds were taken in the order state, config,
\* memory, devices, cpus: none was taken while a later one was held.
C17_LockOrder ==
    \A i \in 1..Len(held) : \A j \in 1..Len(held) :
        i < j => Rank(held[i]) < Rank(held[j])

\* C20: while boot, pause, resume, shutdown or restore is past its first
\* subsystem call and has not returned, it holds the state lock.
C20_StateLockHeldThroughTransition ==
    (/\ running.method \in {"boot", "pause", "resume", "shutdown", "restore"}
     /\ calls # <<>>)
    => \E i \in 1..Len(held) : held[i] = "state"

----------------------------------------------------------------------------
(* Properties of send.                                                     *)

\* C18: send goes on only for a parsed file URL; for any other destination
\* it returns MigrateSend and touches no file.  If the snapshot file already
\* exists at the destination, send fails, leaves every file as it was and
\* does not call the Memory Manager.  When the Memory Manager's
\* send is called, the file has been created by this call, the write of the
\* manifest came first, and the file holds the manifest.
C18_SendFileOnly ==
    [][ret'.op = "send" =>
        LET snapshot == ret'.arg[1]
            url == ret'.arg[2]
            delegated == {j \in 1..Len(calls') : calls'[j].call = "memory_manager.send"} IN
        /\ (~url.parsed \/ url.scheme # "file") =>
               /\ ret'.res = Err("MigrateSend")
               /\ files' = files
               /\ calls' = <<>>
        /\ (url.parsed /\ url.scheme = "file" /\ files[url.path].snapshot_file.some) =>
               /\ ret'.res # Ok
               /\ files' = files
               /\ delegated = {}
        /\ \A j \in delegated :
               /\ ~files[url.path].snapshot_file.some
               /\ \E i \in 1..(j - 1) : calls'[i] = [call |-> "File::write", r |-> "ok"]
               /\ files'[url.path].snapshot_file = Some(snapshot_to_vec(snapshot))
        /\ ret'.res = Ok => delegated # {}
    ]_vars

\* send to a file destination that already holds a snapshot file was refused
C18_Witness ==
    /\ ret.op = "send"
    /\ ret.arg[2].parsed
    /\ ret.arg[2].scheme = "file"
    /\ files[ret.arg[2].path].snapshot_file = Some(Stale)
    /\ calls = <<[call |-> "url_to_path", r |-> "ok"],
                 [call |-> "OpenOptions::open", r |-> "err"]>>
    /\ ret.res = Err("MigrateSend")

\* send wrote the manifest and the Memory Manager persisted its content
C18_WitnessDelegated ==
    /\ ret.op = "send"
    /\ ret.res = Ok
    /\ files[ret.arg[2].path].snapshot_file = Some(snapshot_to_vec(ret.arg[1]))
    /\ files[ret.arg[2].path].memory

----------------------------------------------------------------------------
(* Properties of the signal handler.                                       *)

\* C19: unless restoring the terminal fails, the handler exits the process
\* with code 1 on SIGINT and with code 0 on SIGTERM, and on a terminal it
\* has set canonical mode before it exits; on SIGWINCH it gives the console
\* the columns and rows of the terminal and the process keeps running.
C19_SignalHandler ==
    ret.op = "os_signal_handler" =>
        LET signal == ret.arg[1]
            restored == [call |-> "set_canon_mode", r |-> "ok"]
            exited == [call |-> "process::exit", r |-> "ok"] IN
        /\ (signal \in {"SIGINT", "SIGTERM"} /\ ret.res = Ok) =>
               /\ process.exit = Some(IF signal = "SIGINT" THEN 1 ELSE 0)
               /\ calls = IF on_tty THEN <<restored, exited>> ELSE <<exited>>
               /\ on_tty => term = "canon"
        /\ signal = "SIGWINCH" =>
               /\ ret.res = Ok
               /\ process.console_size = Some(ret.arg[2])
               /\ ~process.exit.some
        /\ process.exit.some => signal \in {"SIGINT", "SIGTERM"}

\* SIGINT reached the handler of a Vm booted on a terminal in raw mode
C19_Witness ==
    /\ ret.op = "os_signal_handler"
    /\ ret.arg[1] = "SIGINT"
    /\ on_tty
    /\ term = "canon"
    /\ process.exit = Some(1)

\* SIGTERM reached the handler
C19_WitnessTerm ==
    /\ ret.op = "os_signal_handler"
    /\ ret.arg[1] = "SIGTERM"
    /\ process.exit = Some(0)

\* SIGWINCH reached the handler and the process runs on
C19_WitnessWinch ==
    /\ ret.op = "os_signal_handler"
    /\ ret.arg[1] = "SIGWINCH"
    /\ process.console_size.some
    /\ Alive

----------------------------------------------------------------------------
(* Properties of failing and of ordered lifecycle steps.                   *)

\* whether a call of this name is in the log and returned
Succeeded(log, name) == \E i \in 1..Len(log) : log[i] = [call |-> name, r |-> "ok"]

\* the place of the first call of this name in the log, 0 if there is none
Place(log, name) ==
    IF \E i \in 1..Len(log) : log[i].call = name
    THEN CHOOSE i \in 1..Len(log) :
             /\ log[i].call = name
             /\ \A j \in 1..(i - 1) : log[j].call # name
    ELSE 0

\* C21: a pause or resume that returns an error leaves the state as it was
\* and keeps what the calls that succeeded have done: the clock saved and
\* the CPUs paused by a pause that failed later, the CPUs resumed and the
\* clock restored by a resume that failed later.
C21_FailedPauseResumeNotRolledBack ==
    [][(ret'.op \in {"pause", "resume"} /\ ret'.res.kind # "Ok")
       => /\ state' = state
          /\ Succeeded(calls', "vm.get_clock") => saved_clock'.some
          /\ Succeeded(calls', "cpu_manager.pause") => cpu_manager'.paused
          /\ Succeeded(calls', "cpu_manager.resume") => ~cpu_manager'.paused
          /\ Succeeded(calls', "vm.set_clock") => vm_clock' = saved_clock
          /\ device_manager' = device_manager]_vars

\* a pause failed at the Device Manager: the CPUs are paused, the clock is
\* saved and the state is still Running
C21_Witness ==
    /\ calls # <<>>
    /\ ret.op = "pause"
    /\ ret.res.kind # "Ok"
    /\ calls[Len(calls)] = [call |-> "device_manager.pause", r |-> "err"]
    /\ cpu_manager.paused
    /\ saved_clock.some
    /\ ~device_manager.paused
    /\ state = "Running"

\* a resume failed at the Device Manager: the CPUs run and the state is Paused
C21_WitnessResume ==
    /\ calls # <<>>
    /\ ret.op = "resume"
    /\ ret.res.kind # "Ok"
    /\ calls[Len(calls)] = [call |-> "device_manager.resume", r |-> "err"]
    /\ ~cpu_manager.paused
    /\ device_manager.paused
    /\ state = "Paused"

\* C26: pause calls the CPU Manager's pause before the Device Manager's, and
\* resume the CPU Manager's resume before the Device Manager's; the Device
\* Manager is called only after the CPU Manager's call succeeded, and the
\* state changes (to Paused, to Running) only when both calls succeeded.
C26_CpusBeforeDevices ==
    [][ret'.op \in {"pause", "resume"} =>
        LET cpus == "cpu_manager." \o ret'.op
            devices == "device_manager." \o ret'.op IN
        /\ Place(calls', devices) > 0 =>
               /\ Place(calls', cpus) > 0
               /\ Place(calls', cpus) < Place(calls', devices)
               /\ Succeeded(calls', cpus)
        /\ (state' # state \/ ret'.res = Ok) =>
               /\ Succeeded(calls', cpus)
               /\ Succeeded(calls', devices)
               /\ state' = IF ret'.op = "pause" THEN "Paused" ELSE "Running"]_vars

\* a pause went through: clock, CPUs, devices, then the state
C26_Witness ==
    /\ ret.op = "pause"
    /\ ret.res = Ok
    /\ state = "Paused"
    /\ calls = <<[call |-> "vm.get_clock", r |-> "ok"],
                 [call |-> "cpu_manager.pause", r |-> "ok"],
                 [call |-> "device_manager.pause", r |-> "ok"]>>

\* a resume went through
C26_WitnessResume ==
    /\ ret.op = "resume"
    /\ ret.res = Ok
    /\ state = "Running"
    /\ Place(calls, "cpu_manager.resume") = 1
    /\ Place(calls, "device_manager.resume") = Len(calls)

\* C22: after a boot that got past its transition check and then failed, a
\* shutdown is accepted: its transition is legal, and with its own calls
\* succeeding it stops the vCPUs and takes the threads off the thread list.
C22_ShutdownAfterFailedBoot ==
    (/\ ret.op = "boot"
     /\ ret.res.kind # "Ok"
     /\ calls # <<>>
     /\ calls[1].call = "load_kernel")
    => LET o == shutdown_outcome("none") IN
       /\ valid_transition(state, "Shutdown") = Ok
       /\ o.cpu.vcpus = "stopped"
       /\ o.pc = "idle" => o.threads = <<>>

\* C23: a shutdown that passed its transition check and none of whose calls
\* failed has joined every thread of the thread list and the state is
\* Shutdown, whatever calls came before it.
C23_ShutdownCompletes ==
    (/\ ret.op = "shutdown"
     /\ calls # <<>>
     /\ \A i \in 1..Len(calls) : calls[i].r # "err")
    => /\ pc = "idle"
       /\ threads = <<>>
       /\ state = "Shutdown"

\* the handler threads of the thread list whose Signals has not been closed
Registered == {i \in 1..Len(threads) : threads[i] = "open"}

\* C24: at most one signal handler thread with an unclosed Signals exists.
C24_OneSignalHandler == Cardinality(Registered) <= 1

\* C25: when snapshot has passed its state check and collected the child
\* snapshots, the CPU Manager and the Device Manager are paused.
C25_SnapshotWhilePaused ==
    (ret.op = "snapshot" /\ Called("cpu_manager.snapshot"))
    => /\ cpu_manager.paused
       /\ device_manager.paused

\* the place of a call in the order of the steps of shutdown
ShutdownStep(name) ==
    CASE name = "set_canon_mode" -> 1
      [] name = "signals.close" -> 2
      [] name = "device_manager.resume" -> 3
      [] name = "cpu_manager.shutdown" -> 4
      [] name = "thread.join" -> 5

\* C27: shutdown makes its calls in the order canonical mode, close of the
\* signal iterator, Device Manager resume, CPU Manager shutdown, joins; on a
\* terminal canonical mode comes first; the CPU Manager is shut down only
\* after the Device Manager's resume has succeeded, whether or not it was
\* paused; the state becomes Shutdown only after all of them, none failed.
C27_ShutdownOrder ==
    [][ret'.op = "shutdown" =>
        /\ \A i \in 1..Len(calls') : \A j \in 1..Len(calls') :
               i < j => /\ ShutdownStep(calls'[i].call) <= ShutdownStep(calls'[j].call)
                        /\ calls'[i].r = "ok"
        /\ (on_tty /\ calls' # <<>>) => calls'[1].call = "set_canon_mode"
        /\ (signals.some /\ Place(calls', "device_manager.resume") > 0) =>
               Place(calls', "signals.close") > 0
        /\ Place(calls', "cpu_manager.shutdown") > 0 =>
               /\ Succeeded(calls', "device_manager.resume")
               /\ ~device_manager'.paused
        /\ Place(calls', "thread.join") > 0 => Succeeded(calls', "cpu_manager.shutdown")
        /\ state' # state =>
               /\ state' = "Shutdown"
               /\ ret'.res = Ok
               /\ Succeeded(calls', "device_manager.resume")
               /\ Succeeded(calls', "cpu_manager.shutdown")
               /\ threads' = <<>>
               /\ \A i \in 1..Len(calls') : calls'[i].r = "ok"]_vars

\* a Vm paused on a terminal with a handler thread was shut down
C27_Witness ==
    /\ ret.op = "shutdown"
    /\ ret.res = Ok
    /\ state = "Shutdown"
    /\ on_tty
    /\ calls = <<[call |-> "set_canon_mode", r |-> "ok"],
                 [call |-> "signals.close", r |-> "ok"],
                 [call |-> "device_manager.resume", r |-> "ok"],
                 [call |-> "cpu_manager.shutdown", r |-> "ok"],
                 [call |-> "thread.join", r |-> "ok"]>>

\* the place of a call in the order of the steps of boot
BootStep(name) ==
    CASE name = "load_kernel" -> 1
      [] name = "cpu_manager.create_boot_vcpus" -> 2
      [] name = "configure_system" -> 3
      [] name = "cpu_manager.start_boot_vcpus" -> 4
      [] name = "Signals::new" -> 5
      [] name = "thread.spawn" -> 6
      [] name = "set_raw_mode" -> 7

\* the calls of a boot step come in the order of the steps of boot, each after
\* the one before it returned (Signals::new may have failed); the console
\* calls are made only with console input, set_raw_mode only on a terminal
BootStepsInOrder ==
    /\ \A i \in 1..Len(calls') : \A j \in 1..Len(calls') :
           i < j => /\ BootStep(calls'[i].call) < BootStep(calls'[j].call)
                    /\ calls'[i].r = "ok" \/ calls'[i].call = "Signals::new"
    /\ Place(calls', "cpu_manager.create_boot_vcpus") > 0 =>
           Succeeded(calls', "load_kernel")
    /\ Place(calls', "cpu_manager.start_boot_vcpus") > 0 =>
           Succeeded(calls', "configure_system")
    /\ \A i \in 1..Len(calls') :
           /\ BootStep(calls'[i].call) >= 5 =>
                  console_input /\ Succeeded(calls', "cpu_manager.start_boot_vcpus")
           /\ calls'[i].call = "set_raw_mode" => on_tty
    /\ (console_input /\ Succeeded(calls', "cpu_manager.start_boot_vcpus")) =>
           Place(calls', "Signals::new") > 0

\* the state changed: it is Running and the four loader and CPU steps succeeded
BootCommitted ==
    /\ state' = "Running"
    /\ ret'.res = Ok
    /\ Succeeded(calls', "load_kernel")
    /\ Succeeded(calls', "cpu_manager.create_boot_vcpus")
    /\ Succeeded(calls', "configure_system")
    /\ Succeeded(calls', "cpu_manager.start_boot_vcpus")
    /\ (console_input /\ on_tty) => Succeeded(calls', "set_raw_mode")

----------------------------------------------------------------------------
(* Properties of the order of mutation, mirror and notification.           *)

\* the VmConfig field a guest notification is about
MirrorOf(notification) ==
    CASE notification = CPU_DEVICES_CHANGED -> "config.cpus.boot_vcpus"
      [] notification = MEMORY_DEVICES_CHANGED -> "config.memory.size"
      [] notification = PCI_DEVICES_CHANGED -> "config.devices"

\* the subsystem call whose result a VmConfig field mirrors
MutationOf(field) ==
    CASE field = "config.cpus.boot_vcpus" -> {"cpu_manager.resize"}
      [] field = "config.memory.size" -> {"memory_manager.resize"}
      [] field = "config.memory.balloon_size" -> {"memory_manager.balloon_resize"}
      [] field = "config.devices" ->
             {"device_manager.add", "device_manager.remove_device"}

\* C29: in resize and in the hot-plug methods, a VmConfig field is written
\* only after the subsystem call it mirrors, and a guest notification is sent
\* only after the VmConfig field it is about has been written.
C29_MutationMirrorNotification ==
    running.method \in {"resize", "add", "add_vsock", "remove_device"} =>
        \A i \in 1..Len(calls) :
            /\ calls[i].call \in {CPU_DEVICES_CHANGED, MEMORY_DEVICES_CHANGED,
                                  PCI_DEVICES_CHANGED} =>
                   \E j \in 1..(i - 1) : calls[j].call = MirrorOf(calls[i].call)
            /\ calls[i].call \in {"config.cpus.boot_vcpus", "config.memory.size",
                                  "config.memory.balloon_size", "config.devices"} =>
                   \E j \in 1..(i - 1) : calls[j].call \in MutationOf(calls[i].call)

\* C30: a hot-plug add that returns an error leaves the VmConfig as it was
\* before the call, also when the Device Manager's add succeeded and the
\* notification that follows it failed.
C30_FailedAddLeavesConfig ==
    [][(ret'.op \in AddOps /\ ret'.res.kind # "Ok") => config' = config]_vars

----------------------------------------------------------------------------
(* Properties of removal.                                                  *)

\* the entries of a VmConfig sequence, an absent sequence counting as empty
Entries(sequence) == IF sequence.some THEN sequence.v ELSE <<>>

\* the id under which the add that has just returned Ok put its device into
\* the VmConfig: the id of the entry it pushed, or of the vsock it set
AddedId ==
    IF ret.op = "add_vsock" THEN config.vsock.v.id
    ELSE LET sequence == config[AddField(ret.op)].v IN sequence[Len(sequence)].id

\* C31: when a successful add_X is followed by a successful remove_device of
\* the id the device was added under, the VmConfig sequence of X has the
\* entries it had before the add, that is, the entries after the add without
\* the one the add pushed (for vsock: there is no vsock again).
C31_AddThenRemoveRestores ==
    [][(/\ ret.op \in AddOps
        /\ ret.res = Ok
        /\ ret'.op = "remove_device"
        /\ ret'.res = Ok
        /\ AddedId = Some(ret'.arg))
       => IF ret.op = "add_vsock" THEN ~config'.vsock.some
          ELSE LET before == Entries(config[AddField(ret.op)]) IN
               Entries(config'[AddField(ret.op)]) = SubSeq(before, 1, Len(before) - 1)]_vars

----------------------------------------------------------------------------
(* Properties of restore.                                                  *)

\* the subsystem restores of Snapshottable::restore in program order, each
\* with the id of the child snapshot it is fed and the manager it restores
RestoreSteps ==
    <<[call |-> "memory_manager.restore", child |-> "memory-manager"],
      [call |-> "device_manager.restore", child |-> "device-manager"],
      [call |-> "cpu_manager.restore", child |-> "cpu-manager"]>>

\* whether the manager restored by step i carries a restored state after the step
RestoredAfter(i) ==
    CASE i = 1 -> memory_manager'.restored
      [] i = 2 -> device_manager'.restored
      [] i = 3 -> cpu_manager'.restored

\* C32: restore goes through only from Created or Running, and refused it
\* calls nothing.  The Memory Manager, the Device Manager and the CPU Manager
\* are restored in that order, each only after the one before it succeeded
\* and only when the snapshot holds its child.  At the first missing child
\* restore returns the Restore error naming it, and at the first subsystem
\* restore that fails it returns an error with that call the last one made.
\* A restore that returns an error leaves the state as it was and keeps the
\* subsystems it had restored, and Paused is committed only by a restore
\* that returns Ok after all three restores succeeded.
C32_RestoreSequence ==
    [][ret'.op = "restore" =>
        LET children == ret'.arg
            done(i) == Succeeded(calls', RestoreSteps[i].call)
            reached(i) == \A j \in 1..(i - 1) : done(j) IN
        /\ state \notin {"Created", "Running"}
              => /\ ret'.res = Wrap("Restore", InvalidStateTransition(state, "Paused"))
                 /\ calls' = <<>>
                 /\ <<cpu_manager', device_manager', memory_manager'>>
                      = <<cpu_manager, device_manager, memory_manager>>
        /\ \A i \in 1..3 :
              /\ Called(RestoreSteps[i].call)'
                   <=> (state \in {"Created", "Running"} /\ reached(i)
                        /\ RestoreSteps[i].child \in children)
              /\ Called(RestoreSteps[i].call)' => Place(calls', RestoreSteps[i].call) = i
              /\ (state \in {"Created", "Running"} /\ reached(i)
                  /\ RestoreSteps[i].child \notin children)
                   => /\ ret'.res.kind = "Restore"
                      /\ Len(calls') = i - 1
              /\ CallFailed(RestoreSteps[i].call)'
                   => /\ ret'.res # Ok
                      /\ Len(calls') = i
              /\ done(i) => RestoredAfter(i)
        /\ ret'.res # Ok => state' = state
        /\ ret'.res = Ok => /\ state' = "Paused"
                            /\ \A i \in 1..3 : done(i)]_vars

\* a restore stopped by a missing CPU Manager child after it restored the
\* Memory Manager and the Device Manager: the state is still Running
C32_Witness ==
    /\ ret.op = "restore"
    /\ ret.res = Wrap("Restore", Err("Missing CPU manager snapshot"))
    /\ state = "Running"
    /\ memory_manager.restored /\ device_manager.restored /\ ~cpu_manager.restored

\* a restore that failed in the Device Manager after the Memory Manager was restored
C32_WitnessSubsystem ==
    /\ ret.op = "restore"
    /\ CallFailed("device_manager.restore")
    /\ memory_manager.restored /\ ~device_manager.restored
    /\ state # "Paused"

\* a restore that committed Paused
C32_WitnessCommitted ==
    /\ ret.op = "restore"
    /\ ret.res = Ok
    /\ state = "Paused"
    /\ Len(calls) >= 3

----------------------------------------------------------------------------
(* Properties of resize.                                                   *)

\* the arms of Vm::resize in program order: the place of each in the
\* argument list and the collaborator calls it makes
ResizeArms ==
    <<[calls |-> {"cpu_manager.resize", CPU_DEVICES_CHANGED}],
      [calls |-> {"memory_manager.resize", "device_manager.update_memory",
                  MEMORY_DEVICES_CHANGED}],
      [calls |-> {"memory_manager.balloon_resize"}]>>

\* whether the resize that has just returned was asked for arm i
ArmRequested(i) == ret'.arg[i].some

\* whether a call of arm i failed in the resize that has just returned
ArmFailed(i) ==
    \E k \in 1..Len(calls') : calls'[k].call \in ResizeArms[i].calls /\ calls'[k].r = "err"

\* whether the resize that has just returned made a call of arm i
ArmAttempted(i) == \E k \in 1..Len(calls') : calls'[k].call \in ResizeArms[i].calls

\* arm i was applied to its subsystem and mirrored into the VmConfig
ArmApplied(i) ==
    CASE i = 1 -> /\ cpu_vcpus' = ret'.arg[1].v
                  /\ config'.cpus.boot_vcpus = ret'.arg[1].v
      [] i = 2 -> /\ mm_size' = ret'.arg[2].v
                  /\ config'.memory.size = ret'.arg[2].v
      [] i = 3 -> /\ Succeeded(calls', "memory_manager.balloon_resize")
                  /\ config'.memory.balloon_size = mm_balloon'

\* arm i left its subsystem and its part of the VmConfig as they were
ArmUntouched(i) ==
    CASE i = 1 -> cpu_vcpus' = cpu_vcpus /\ config'.cpus = config.cpus
      [] i = 2 -> mm_size' = mm_size /\ config'.memory.size = config.memory.size
      [] i = 3 -> /\ mm_balloon' = mm_balloon
                  /\ config'.memory.balloon_size = config.memory.balloon_size

\* C33 as stated: in a resize that asks for several arms, a requested arm
\* none of whose own calls failed is applied to its subsystem and mirrored
\* into the VmConfig, whatever happened in the other arms.
C33_ArmsIndependent ==
    [][ret'.op = "resize" =>
        \A i \in 1..3 : (ArmRequested(i) /\ ~ArmFailed(i)) => ArmApplied(i)]_vars

\* C33 amended: the arms run in the order vCPUs, memory, balloon.  A requested
\* arm is applied and mirrored when no call of it or of an arm before it
\* failed, whether or not the arms before it were requested or changed
\* anything; an arm that fails ends the call, so that no arm after it is
\* attempted or changes its subsystem or the VmConfig.
C33_ArmsInOrderUntilFailure ==
    [][ret'.op = "resize" =>
        \A i \in 1..3 :
          /\ (ArmRequested(i) /\ \A j \in 1..i : ~ArmFailed(j)) => ArmApplied(i)
          /\ (\E j \in 1..(i - 1) : ArmFailed(j)) => (~ArmAttempted(i) /\ ArmUntouched(i))
          /\ ~ArmRequested(i) => (~ArmAttempted(i) /\ ArmUntouched(i))]_vars

\* a resize of vCPUs and memory in which the CPU Manager changed nothing and
\* the memory arm was applied and mirrored
C33_Witness ==
    /\ ret.op = "resize"
    /\ ret.arg[1].some /\ ret.arg[2].some
    /\ ret.res = Ok
    /\ [call |-> "cpu_manager.resize", r |-> "Ok(false)"] \in {calls[k] : k \in 1..Len(calls)}
    /\ Called("memory_manager.resize") /\ ~CallFailed("memory_manager.resize")
    /\ mm_size = ret.arg[2].v /\ config.memory.size = ret.arg[2].v

\* a resize of vCPUs and memory whose vCPU arm failed: the memory arm was
\* not attempted
C33_WitnessFailed ==
    /\ ret.op = "resize"
    /\ ret.arg[1].some /\ ret.arg[2].some
    /\ CallFailed("cpu_manager.resize")
    /\ ~Called("memory_manager.resize")
    /\ mm_size # ret.arg[2].v

\* what MemoryManager::resize returned in the resize that has just returned:
\* "Ok(Some)" with a newly allocated region, "Ok(None)" without, "err", or
\* "none" when it was not called
RegionReported ==
    IF Called("memory_manager.resize")
    THEN calls[Place(calls, "memory_manager.resize")].r
    ELSE "none"

C34_WitnessVirtioMem ==
    /\ ret.op = "resize"
    /\ RegionReported = "Ok(Some)"
    /\ config.memory.hotplug_method = "VirtioMem"
    /\ Succeeded(calls, "device_manager.update_memory")
    /\ ~Called(MEMORY_DEVICES_CHANGED)
    /\ ret.res = Ok

\* a region was allocated under ACPI: updated, then notified
C34_WitnessAcpi ==
    /\ ret.op = "resize"
    /\ RegionReported = "Ok(Some)"
    /\ config.memory.hotplug_method = "Acpi"
    /\ Succeeded(calls, "device_manager.update_memory")
    /\ Succeeded(calls, MEMORY_DEVICES_CHANGED)
    /\ config.memory.size = ret.arg[2].v

----------------------------------------------------------------------------
(* Properties of boot on a paused Vm.                                      *)

\* the collaborator calls of Pausable::resume
ResumeCalls == {"cpu_manager.resume", "vm.set_clock", "device_manager.resume"}

\* C35: a boot called in Paused does what some resume called in the same
\* state does -- the same calls with the same results and the same state of
\* the Vm and its managers after them -- and nothing else: no kernel is
\* loaded, no vCPU created or started, no boot data written, no signal
\* handler registered and the terminal is left alone.  It returns Ok with
\* the state Running where the resume returns Ok, and the resume's error
\* wrapped in Resume with the state still Paused where the resume fails.
C35_BootWhilePausedResumes ==
    [][(ret'.op = "boot" /\ state = "Paused") =>
        /\ \A i \in 1..Len(calls') : calls'[i].call \in ResumeCalls
        /\ cpu_manager'.vcpus = cpu_manager.vcpus
        /\ <<term', signals', threads'>> = <<term, signals, threads>>
        /\ \E f \in ResumeFails :
              LET r == resume_outcome(f) IN
              /\ calls' = r.calls
              /\ <<state', cpu_manager', device_manager', memory_manager',
                    saved_clock', vm_clock'>>
                   = <<r.state, r.cpu, r.dev, r.mem, r.saved_clock, r.vm_clock>>
              /\ ret'.res = IF r.res = Ok THEN Ok ELSE Wrap("Resume", r.res)
        /\ ret'.res = Ok => state' = "Running"
        /\ ret'.res # Ok => (ret'.res.kind = "Resume" /\ state' = "Paused")]_vars

\* a boot that resumed a paused Vm: its first call is the CPU Manager's
\* resume, where a boot from Created or Shutdown starts by loading the kernel
C35_Witness ==
    /\ ret.op = "boot"
    /\ ret.res = Ok
    /\ state = "Running"
    /\ calls # <<>>
    /\ calls[1].call = "cpu_manager.resume"
    /\ calls[Len(calls)] = [call |-> "device_manager.resume", r |-> "ok"]

\* a boot of a paused Vm whose resume failed in the Device Manager
C35_WitnessFailed ==
    /\ ret.op = "boot"
    /\ ret.res = Wrap("Resume", Err("DeviceManagerResume"))
    /\ state = "Paused"

----------------------------------------------------------------------------
(* Removal from a populated configuration.  A Vm is constructed with the   *)
(* VmConfig the user wrote: its sequences may hold several entries, with   *)
(* an id or without, and the Device Manager holds a device for every id in *)
(* it and may hold devices of its own that no sequence lists.              *)

\* the entries of a populated configuration
ConfigCfgs == {[id |-> i] : i \in {None} \cup {Some(n) : n \in 0..MaxDevices}}

\* up to MaxEntries + 1 entries, no id twice
ConfigEntries ==
    {es \in UNION {[1..n -> ConfigCfgs] : n \in 0..(MaxEntries + 1)} :
        \A i, j \in 1..Len(es) : (i # j /\ es[i].id.some) => es[i].id # es[j].id}

\* where an entry of the configuration sits
ConfigPlaces == SeqFields \cup {"vsock"}

\* the entries of es placed in the field, in their order
Placed(es, place, field) ==
    LET at == SelectSeq([i \in 1..Len(es) |-> i], LAMBDA i : place[i] = field) IN
    [k \in 1..Len(at) |-> es[at[k]]]

\* the VmConfig with the entries of es in the sequences place assigns them to
Populated(es, place) ==
    LET base == CHOOSE c \in VmConfigs : c.memory.hotplug_method = "Acpi"
        seq(field) == IF Placed(es, place, field) = <<>> THEN None
                      ELSE Some(Placed(es, place, field)) IN
    [base EXCEPT !.devices = seq("devices"), !.disks = seq("disks"),
                 !.fs = seq("fs"), !.pmem = seq("pmem"), !.net = seq("net"),
                 !.vsock = IF Placed(es, place, "vsock") = <<>> THEN None
                           ELSE Some(Placed(es, place, "vsock")[1])]

\* the ids of the entries of es
IdsOf(es) == {es[i].id.v : i \in {j \in 1..Len(es) : es[j].id.some}}

InitRemoval ==
    /\ InitLifecycle
    /\ saved_clock = None
    /\ ~on_tty
    /\ ~console_input
    /\ \E es \in ConfigEntries :
         \E place \in [1..Len(es) -> ConfigPlaces] :
            \* at most one vsock, and the Device Manager has named it
            /\ Len(Placed(es, place, "vsock")) <= 1
            /\ \A i \in 1..Len(es) : place[i] = "vsock" => es[i].id.some
            /\ config = Populated(es, place)
            /\ \E own \in {{}, {MaxDevices}} : dm_devices = IdsOf(es) \cup own
    /\ cpu_vcpus = config.cpus.boot_vcpus
    /\ mm_size = config.memory.size
    /\ mm_balloon = config.memory.balloon_size
    /\ InitCall
    /\ InitHost

SpecRemoval == InitRemoval /\ [][RemoveDevice]_vars

\* the entries of a sequence whose id is not the removed one, in their order
RECURSIVE Others(_, _)
Others(entries, id) ==
    IF entries = <<>> THEN <<>>
    ELSE IF Head(entries).id = Some(id) THEN Others(Tail(entries), id)
    ELSE <<Head(entries)>> \o Others(Tail(entries), id)

\* whether an entry of the configuration carries the id
Listed(id) ==
    \/ \E field \in SeqFields :
          \E i \in 1..Len(Entries(config[field])) : config[field].v[i].id = Some(id)
    \/ config.vsock.some /\ config.vsock.v.id = Some(id)

\* C36: a remove_device(id) that returns Ok leaves in devices, disks, net and
\* pmem exactly the entries whose id is not id, in the order they had, takes
\* the vsock away only if it carries the id, leaves fs, cpus, memory and the
\* command line as they were, and has notified PCI_DEVICES_CHANGED; if no
\* entry carries the id the VmConfig is as it was.  A remove_device the
\* Device Manager rejected leaves the VmConfig as it was and notifies nothing.
C36_RemoveTouchesOnlyItsId ==
    [][ret'.op = "remove_device" =>
        LET id == ret'.arg IN
        /\ ret'.res = Ok =>
              /\ \A field \in {"devices", "disks", "net", "pmem"} :
                    /\ config'[field].some = config[field].some
                    /\ Entries(config'[field]) = Others(Entries(config[field]), id)
              /\ config'.vsock = IF config.vsock.some /\ config.vsock.v.id = Some(id)
                                 THEN None ELSE config.vsock
              /\ <<config'.fs, config'.cpus, config'.memory, config'.cmdline>>
                   = <<config.fs, config.cpus, config.memory, config.cmdline>>
              /\ Succeeded(calls', PCI_DEVICES_CHANGED)
              /\ ~Listed(id) => config' = config
        /\ CallFailed("device_manager.remove_device")' =>
              /\ ret'.res # Ok
              /\ config' = config
              /\ ~Called(PCI_DEVICES_CHANGED)']_vars

\* a removal from the middle of a sequence: the entry before it and the entry
\* after it, one of them without an id, are left in their order
C36_Witness ==
    /\ ret.op = "remove_device"
    /\ ret.res = Ok
    /\ ret.arg = 0
    /\ config.disks = Some(<<[id |-> Some(1)], [id |-> None]>>)
    /\ 0 \notin dm_devices

\* a removal of a device no entry lists: Ok, notified, the VmConfig as built
C36_WitnessNotListed ==
    /\ ret.op = "remove_device"
    /\ ret.res = Ok
    /\ ret.arg = MaxDevices
    /\ Succeeded(calls, PCI_DEVICES_CHANGED)
    /\ config.devices = Some(<<[id |-> Some(0)], [id |-> None]>>)

\* a removal the Device Manager rejected
C36_WitnessRejected ==
    /\ ret.op = "remove_device"
    /\ CallFailed("device_manager.remove_device")
    /\ ~Called(PCI_DEVICES_CHANGED)
    /\ config.net = Some(<<[id |-> Some(0)]>>)
    /\ ret.arg = 0

----------------------------------------------------------------------------
(* The saved clock.  A Vm is booted, paused, resumed, snapshotted and      *)
(* built again from its snapshot, the hypervisor answering get_clock with  *)
(* more than one value.                                                    *)

\* the clocks vm.get_clock may return
ClockReadings == [value : 0..(MaxClock + 1), flags : {0, 1}]

\* Pausable::pause, recorded with the clock the hypervisor returned to it
PauseReading ==
    pc = "idle" /\ \E f \in PauseFails :
        \E c \in (IF f = "vm.get_clock" THEN {[value |-> 0, flags |-> 0]}
                  ELSE ClockReadings) :
            Apply("pause", c, pause_outcome(f, c))

NextClock ==
    \/ Boot
    \/ PauseReading
    \/ Resume
    \/ SnapshotCall
    \/ NewFromSnapshot
    \/ RestoreSnapshot

SpecClock == InitHotplug /\ [][NextClock]_vars

\* the clock member of the data section of a manifest
ClockOf(manifest) == Member(manifest.snapshot_data[1].snapshot, "clock")

\* C37: the saved clock is written only by a pause, which stores the clock
\* the hypervisor returned with its flags set to 0, and by the construction
\* of a Vm from a snapshot, which stores the clock the snapshot carries; so
\* it is always the clock of the most recent pause, or the snapshot's if
\* there was none since.  A resume that succeeds with a saved clock has set
\* that clock in the hypervisor after the CPU Manager's resume and before
\* the Device Manager's, and a snapshot taken in Paused carries it.
C37_ClockReinstalled ==
    [][/\ saved_clock' # saved_clock =>
            \/ ret'.op = "pause" /\ Succeeded(calls', "vm.get_clock")
            \/ ret'.op = "new_from_snapshot" /\ ret'.res = Ok
       /\ (ret'.op = "pause" /\ Succeeded(calls', "vm.get_clock"))
            => saved_clock' = Some([value |-> ret'.arg.value, flags |-> 0])
       /\ (ret'.op = "new_from_snapshot" /\ ret'.res = Ok)
            => saved_clock' = ClockOf(ret'.arg)
       /\ (ret'.op = "resume" /\ ret'.res = Ok) =>
            IF saved_clock.some
            THEN /\ vm_clock' = saved_clock
                 /\ calls' = <<[call |-> "cpu_manager.resume", r |-> "ok"],
                               [call |-> "vm.set_clock", r |-> "ok"],
                               [call |-> "device_manager.resume", r |-> "ok"]>>
            ELSE /\ vm_clock' = vm_clock
                 /\ ~Called("vm.set_clock")'
       /\ (ret'.op = "snapshot" /\ ret'.res.kind = "Ok")
            => /\ state = "Paused"
               /\ ClockOf(ret'.res) = saved_clock]_vars

\* a resume of a Vm built from a snapshot and restored: the hypervisor has
\* the clock of the pause before the snapshot
C37_Witness ==
    /\ ret.op = "resume"
    /\ ret.res = Ok
    /\ memory_manager.restored
    /\ vm_clock = Some([value |-> 1, flags |-> 0])
    /\ saved_clock = vm_clock

\* a pause that read a clock with flags set and saved it with the flags cleared
C37_WitnessPause ==
    /\ ret.op = "pause"
    /\ ret.res = Ok
    /\ ret.arg = [value |-> 1, flags |-> 1]
    /\ saved_clock = Some([value |-> 1, flags |-> 0])
    /\ vm_clock = Some([value |-> 0, flags |-> 0])

\* a snapshot carrying the clock of the pause before it
C37_WitnessSnapshot ==
    /\ ret.op = "snapshot"
    /\ ret.res.kind = "Ok"
    /\ ClockOf(ret.res) = Some([value |-> 1, flags |-> 0])
    /\ vm_clock = Some([value |-> 0, flags |-> 0])

----------------------------------------------------------------------------
(* Properties of the entry address.                                        *)

\* whether the last load_kernel got an image with a setup header from its
\* loaders and loaded the command line
HeaderLoaded ==
    /\ ret.op = "load_kernel"
    /\ CmdlineComposed
    /\ ret.arg.elf.kind = "Ok" \/ ret.arg.elf = Err("InvalidElfMagicNumber")
    /\ LoadedImage.kind = "Ok"
    /\ LoadedImage.setup_header.some
    /\ ~CallFailed("load_cmdline")

\* C38: when the loaded kernel carries a setup header, load_kernel returns the
\* entry address kernel_load + 0x200 if that sum fits the address width and
\* MemOverflow if it does not; it never returns the sum wrapped around.
C38_EntryAddressChecked ==
    HeaderLoaded =>
        LET sum == LoadedImage.kernel_load + KERNEL_64BIT_ENTRY_OFFSET IN
        IF sum > AddressMax
        THEN ret.res = Err("MemOverflow")
        ELSE /\ ret.res.kind = "Ok"
             /\ ret.res.entry_point.entry_addr = sum
             /\ ret.res.entry_point.entry_addr >= LoadedImage.kernel_load

\* the sum is one past the largest address: MemOverflow
C38_Witness ==
    /\ HeaderLoaded
    /\ LoadedImage.kernel_load = AddressMax - KERNEL_64BIT_ENTRY_OFFSET + 1
    /\ ret.res = Err("MemOverflow")

\* the sum is the largest address: it is the entry address
C38_WitnessLargest ==
    /\ HeaderLoaded
    /\ LoadedImage.kernel_load = AddressMax - KERNEL_64BIT_ENTRY_OFFSET
    /\ ret.res.kind = "Ok"
    /\ ret.res.entry_point.entry_addr = AddressMax

====
